---------------------------- MODULE Spec2Model ----------------------------
(***************************************************************************)
(* PowerTracker: the scoring engine (src/scoring.py) and the schema        *)
(* normalizer (src/powertrack_app.py, ensure_meet_dataframe).              *)
(*                                                                         *)
(* Numbers.  A numeric cell is a record [k, v]: k = "num" with v the       *)
(* value, k = "nan" for a missing value (float NaN), k = "str" for text    *)
(* that does not parse as a number, k = "none" for Python None.  Weights   *)
(* (totals, best lifts, bodyweight) are held in thousandths of a kilogram, *)
(* points in hundredths of a point (the code rounds points to 2 places).   *)
(* Python floats are modelled as decimal floating point numbers            *)
(* [m, e, nan] = m * 10^(-e) with a mantissa of 8 to 9 digits, results     *)
(* truncated: a score agrees with the binary double to about 6 digits, so  *)
(* that its value rounded to 2 places can differ from Python's by 0.01     *)
(* where the exact score lies within 0.0002 of a rounding boundary.        *)
(*                                                                         *)
(* Text.  A Python str is a sequence of one-character strings, so that     *)
(* strip(), upper() and lower() are computed character by character.       *)
(***************************************************************************)
EXTENDS Integers, Sequences, FiniteSets, TLC

----------------------------------------------------------------------------
(* Cells *)

Num(n) == [k |-> "num", v |-> n]
NaN == [k |-> "nan", v |-> 0]
Unparsable == [k |-> "str", v |-> 0]
None == [k |-> "none", v |-> 0]

IsNum(c) == c.k = "num"

(* Python evaluates an expression to a value before it is passed on or
   assigned: Op applied to the value of x *)
ByValue(Op(_), x) == CHOOSE y \in {Op(v) : v \in {x}} : TRUE

----------------------------------------------------------------------------
(* Integer helpers *)

Abs(n) == IF n < 0 THEN -n ELSE n
Sign(n) == IF n < 0 THEN -1 ELSE 1
Min(a, b) == IF a < b THEN a ELSE b
Max(a, b) == IF a > b THEN a ELSE b

Pow10(k) == <<1, 10, 100, 1000, 10000, 100000, 1000000, 10000000,
              100000000, 1000000000>>[k + 1]

Digits(n) ==
  IF n < 10 THEN 1 ELSE IF n < 100 THEN 2 ELSE IF n < 1000 THEN 3
  ELSE IF n < 10000 THEN 4 ELSE IF n < 100000 THEN 5
  ELSE IF n < 1000000 THEN 6 ELSE IF n < 10000000 THEN 7
  ELSE IF n < 100000000 THEN 8 ELSE IF n < 1000000000 THEN 9 ELSE 10

(* floor(a * b / 10^drop) for 0 <= a, b < 10^8 and 1 <= drop <= 7, by halves
   of four digits, so that no intermediate reaches 2^31 *)
MulCut(a, b, drop) ==
  LET low == (a % 10000) * (b % 10000)
      mid == (a \div 10000) * (b % 10000) + (a % 10000) * (b \div 10000)
               + (low \div 10000)
      high == (a \div 10000) * (b \div 10000) + (mid \div 10000)
      rest == (mid % 10000) * 10000 + (low % 10000)
  IN  high * Pow10(8 - drop) + (rest \div Pow10(drop))

(* floor(a * 10^k / c) for 0 <= a < 10^9 and 0 < c < 10^8, digit by digit:
   digits[q, r, j] continues from quotient q and remainder r with j digits
   to go *)
LongDiv(a, c, k) ==
  LET digits[q \in Nat, r \in Nat, j \in 0..k] ==
        IF j = 0 THEN q
        ELSE digits[q * 10 + ((r * 10) \div c), (r * 10) % c, j - 1]
  IN  digits[a \div c, a % c, k]

----------------------------------------------------------------------------
(* Decimal floating point: the model of a Python float *)

F(m, e) == [m |-> m, e |-> e, nan |-> FALSE]
FNaN == [m |-> 0, e |-> 0, nan |-> TRUE]
Floats == [m : Int, e : Int, nan : BOOLEAN]

(* the mantissa cut to at most d digits (truncation toward zero) *)
FCut(x, d) ==
  LET n == Digits(Abs(x.m))
  IN  IF n <= d THEN x
      ELSE F(Sign(x.m) * (Abs(x.m) \div Pow10(n - d)), x.e - (n - d))

FNeg(x) == IF x.nan THEN FNaN ELSE F(-x.m, x.e)

(* a * b for mantissas of at most 8 digits, the product cut by `drop` digits *)
FMulDrop(a, b, drop) ==
  IF drop = 0 THEN F(a.m * b.m, a.e + b.e)
  ELSE F(Sign(a.m) * Sign(b.m) * MulCut(Abs(a.m), Abs(b.m), drop),
         a.e + b.e - drop)

FMulCut(a, b) == FMulDrop(a, b, Max(0, Digits(Abs(a.m)) + Digits(Abs(b.m)) - 9))

FMul(x, y) == IF x.nan \/ y.nan THEN FNaN ELSE FMulCut(FCut(x, 8), FCut(y, 8))

(* the mantissa of x at exponent e (truncation toward zero when coarser) *)
FRescale(x, e) ==
  IF e >= x.e THEN x.m * Pow10(e - x.e)
  ELSE IF x.e - e > 9 THEN 0
  ELSE Sign(x.m) * (Abs(x.m) \div Pow10(x.e - e))

FAdd(x, y) ==
  IF x.nan \/ y.nan THEN FNaN
  ELSE IF x.m = 0 THEN y
  ELSE IF y.m = 0 THEN x
  ELSE LET e == Min(Max(x.e, y.e),
                    Min(x.e + 9 - Digits(Abs(x.m)), y.e + 9 - Digits(Abs(y.m))))
       IN  F(FRescale(x, e) + FRescale(y, e), e)

FSub(x, y) == FAdd(x, FNeg(y))

(* x / y for y # 0 *)
FDivShift(a, b, up, k) ==
  F(Sign(a.m) * Sign(b.m) * LongDiv(Abs(a.m) * Pow10(up), Abs(b.m), k),
    a.e + up - b.e + k)

FDivCut(a, b) == FDivShift(a, b, 9 - Digits(Abs(a.m)), Digits(Abs(b.m)) - 1)

FDiv(x, y) ==
  IF x.nan \/ y.nan THEN FNaN
  ELSE IF x.m = 0 THEN F(0, 0)
  ELSE FDivCut(FCut(x, 9), FCut(y, 8))

(* comparisons: every comparison with NaN is false *)
FLt(x, y) == ~x.nan /\ ~y.nan /\ FSub(x, y).m < 0
FLe(x, y) == ~x.nan /\ ~y.nan /\ FSub(x, y).m <= 0
FIsZero(x) == ~x.nan /\ x.m = 0

(* Python's min(a, b) and max(a, b): the first argument unless the second
   compares strictly smaller (larger) *)
PyMin(a, b) == IF FLt(b, a) THEN b ELSE a
PyMax(a, b) == IF FLt(a, b) THEN b ELSE a

(* math.pow(weight, index) for a small non-negative integer index *)
FPow(x, i) ==
  LET power[k \in 0..i, acc \in Floats] ==
        IF k = 0 THEN acc ELSE power[k - 1, FMul(acc, x)]
  IN  power[i, F(1, 0)]

(* sum_{j <= n} x^j / j! by Horner's scheme, from the innermost bracket
   outwards: acc is the bracket of term k + 1 *)
ExpSeries(x, n) ==
  LET horner[k \in 0..n, acc \in Floats] ==
        IF k = 0 THEN acc
        ELSE horner[k - 1, FAdd(F(1, 0), FDiv(FMul(x, acc), F(k, 0)))]
  IN  horner[n, F(1, 0)]

(* math.exp(x): the series on |x| / 8, raised to the 8th power, inverted
   for a negative argument *)
(* x^(2^n) by n squarings *)
Squared(x, n) ==
  LET square[k \in 0..n, acc \in Floats] ==
        IF k = 0 THEN acc ELSE square[k - 1, FMul(acc, acc)]
  IN  square[n, x]

FExp(x) ==
  IF x.nan THEN FNaN
  ELSE LET series(a) == ExpSeries(a, 12)
           power(s) == Squared(s, 3)
           signed(s8) == IF x.m < 0 THEN FDiv(F(1, 0), s8) ELSE s8
       IN  ByValue(signed, ByValue(power,
             ByValue(series, FDiv(F(Abs(x.m), x.e), F(8, 0)))))

(* math.log(x) for x > 0: x = y * 2^k with 1 <= y < 2, and
   log(y) = 2 * sum z^(2j+1) / (2j+1) with z = (y - 1) / (y + 1) *)
(* <<k, y>> with x = y * 2^k and y < 2 *)
Halved(x) ==
  LET halve[k \in Nat, y \in Floats] ==
        IF FLt(y, F(2, 0)) THEN <<k, y>> ELSE halve[k + 1, FDiv(y, F(2, 0))]
  IN  halve[0, x]

(* sum_{j <= n} z2^j / (2j+1), from the last term backwards *)
AtanhSeries(z2, n) ==
  LET horner[j \in -1..n, acc \in Floats] ==
        IF j < 0 THEN acc
        ELSE horner[j - 1, FAdd(FDiv(F(1, 0), F(2 * j + 1, 0)), FMul(z2, acc))]
  IN  horner[n, F(0, 0)]

FLnSeries(k, z) ==
  LET series(z2) == AtanhSeries(z2, 9)
  IN  FAdd(FMul(F(k, 0), F(693147181, 9)),
           FMul(F(2, 0), FMul(z, ByValue(series, FMul(z, z)))))

FLnHalved(halved) ==
  LET series(z) == FLnSeries(halved[1], z)
  IN  ByValue(series, FDiv(FSub(halved[2], F(1, 0)), FAdd(halved[2], F(1, 0))))

FLn(x) == ByValue(FLnHalved, Halved(x))

(* math.pow(x, y) for x > 0 and a real exponent y *)
FPowReal(x, y) ==
  IF x.nan \/ y.nan THEN FNaN ELSE ByValue(FExp, FMul(y, ByValue(FLn, x)))

(* round(x) where round(x, 2) was meant: whole points *)
Round2_Whole(x) ==
  IF x.nan THEN NaN
  ELSE IF x.e <= 0 THEN Num(100 * x.m * Pow10(-x.e))
  ELSE IF x.e > 9 THEN Num(0)
  ELSE LET p == Pow10(x.e)
           q == Abs(x.m) \div p
           r == Abs(x.m) % p
           up == (2 * r > p) \/ (2 * r = p /\ q % 2 = 1)
       IN  Num(100 * Sign(x.m) * (IF up THEN q + 1 ELSE q))

(* round(x, 2) in hundredths: round half to even, NaN stays NaN *)
Round2(x) ==
  IF x.nan THEN NaN
  ELSE IF x.e <= 2 THEN Num(x.m * Pow10(2 - x.e))
  ELSE IF x.e - 2 > 9 THEN Num(0)
  ELSE LET p == Pow10(x.e - 2)
           q == Abs(x.m) \div p
           r == Abs(x.m) % p
           up == (2 * r > p) \/ (2 * r = p /\ q % 2 = 1)
       IN  Num(Sign(x.m) * (IF up THEN q + 1 ELSE q))

(* a weight cell (thousandths of a kilogram) as a float in kilograms *)
KgFloat(c) == IF c.k = "nan" THEN FNaN ELSE F(c.v, 3)

(* Python truthiness of a numeric argument: 0, 0.0 and None are falsy,
   NaN is truthy *)
Falsy(c) == c.k = "none" \/ (c.k = "num" /\ c.v = 0)

----------------------------------------------------------------------------
(* Text *)

LowerCase == <<"a", "b", "c", "d", "e", "f", "g", "h", "i", "j", "k", "l", "m",
               "n", "o", "p", "q", "r", "s", "t", "u", "v", "w", "x", "y", "z">>
UpperCase == <<"A", "B", "C", "D", "E", "F", "G", "H", "I", "J", "K", "L", "M",
               "N", "O", "P", "Q", "R", "S", "T", "U", "V", "W", "X", "Y", "Z">>

IndexIn(c, letters) ==
  IF \E i \in 1..Len(letters) : letters[i] = c
  THEN CHOOSE i \in 1..Len(letters) : letters[i] = c
  ELSE 0

UpperChar(c) == IF IndexIn(c, LowerCase) > 0 THEN UpperCase[IndexIn(c, LowerCase)] ELSE c
LowerChar(c) == IF IndexIn(c, UpperCase) > 0 THEN LowerCase[IndexIn(c, UpperCase)] ELSE c

(* str.upper(), str.lower() *)
Upper(s) == [i \in 1..Len(s) |-> UpperChar(s[i])]
Lower(s) == [i \in 1..Len(s) |-> LowerChar(s[i])]

IsSpace(c) == c \in {" ", "\t"}

(* str.strip() *)
RECURSIVE LStrip(_)
LStrip(s) == IF s # <<>> /\ IsSpace(Head(s)) THEN LStrip(Tail(s)) ELSE s
RECURSIVE RStrip(_)
RStrip(s) ==
  IF s # <<>> /\ IsSpace(s[Len(s)]) THEN RStrip(SubSeq(s, 1, Len(s) - 1)) ELSE s
Strip(s) == RStrip(LStrip(s))

----------------------------------------------------------------------------
(* src/scoring.py *)

(* _coefficient: dividend / sum(param * pow(weight, index)) *)
PolySum(weight, params) ==
  LET sum[index \in 1..Len(params) + 1, acc \in Floats] ==
        IF index > Len(params) THEN acc
        ELSE sum[index + 1, FAdd(acc, FMul(params[index], FPow(weight, index - 1)))]
  IN  sum[1, F(0, 0)]

_coefficient(dividend, weight, params) ==
  LET quotient(denominator) ==
        IF FIsZero(denominator) THEN F(0, 0) ELSE FDiv(dividend, denominator)
  IN  ByValue(quotient, PolySum(weight, params))

(* an unknown gender falls back to the male coefficients *)
DotsCoeffs_DefaultMale(gender_key) ==
  IF gender_key = <<"f", "e", "m", "a", "l", "e">>
  THEN <<F(-5796288, 5), F(136175032, 7), F(-1126655495, 10),
         F(5158568, 10), F(-10706, 10)>>
  ELSE <<F(-30775076, 5), F(240900756, 7), F(-1918759221, 10),
         F(7391293, 10), F(-1093, 9)>>

DotsCoeffs(gender_key) ==
  IF gender_key = <<"m", "a", "l", "e">>
  THEN <<F(-30775076, 5), F(240900756, 7), F(-1918759221, 10),
         F(7391293, 10), F(-1093, 9)>>
  ELSE IF gender_key = <<"f", "e", "m", "a", "l", "e">>
  THEN <<F(-5796288, 5), F(136175032, 7), F(-1126655495, 10),
         F(5158568, 10), F(-10706, 10)>>
  ELSE <<>>

calculate_dots(total_kg, bodyweight_kg, gender) ==
  IF Falsy(total_kg) \/ Falsy(bodyweight_kg) THEN Num(0)
  ELSE LET coeffs == DotsCoeffs(Lower(gender))
       IN  IF coeffs = <<>> THEN Num(0)
           ELSE LET dots_coeff == _coefficient(F(500, 0), KgFloat(bodyweight_kg), coeffs)
                IN  ByValue(Round2, FMul(KgFloat(total_kg), dots_coeff))

IpfCoeffs(gender_key) ==
  IF gender_key = <<"m", "a", "l", "e">>
  THEN <<F(119972839, 5), F(102518162, 5), F(9210, 6)>>
  ELSE IF gender_key = <<"f", "e", "m", "a", "l", "e">>
  THEN <<F(61032796, 5), F(104559282, 5), F(3048, 5)>>
  ELSE <<>>

calculate_ipf_gl(total_kg, bodyweight_kg, gender) ==
  IF Falsy(total_kg) \/ Falsy(bodyweight_kg) THEN Num(0)
  ELSE LET coeffs == IpfCoeffs(Lower(gender))
       IN  IF coeffs = <<>> THEN Num(0)
           ELSE LET a == coeffs[1]
                    b == coeffs[2]
                    c == coeffs[3]
                    points(denominator) ==
                      IF FIsZero(denominator) THEN Num(0)
                      ELSE ByValue(Round2,
                             FDiv(FMul(KgFloat(total_kg), F(100, 0)), denominator))
                IN  ByValue(points,
                      FSub(a, FMul(b, ByValue(FExp, FMul(FNeg(c), KgFloat(bodyweight_kg))))))

_clamp(value, min_value, max_value) == PyMax(min_value, PyMin(value, max_value))

SchwartzOf(bw) ==
      IF FLe(bw, F(126, 0))
      THEN LET x0 == F(631926, 5)
               x1 == FMul(F(262349, 6), bw)
               x2 == FMul(F(511550, 8), FPow(bw, 2))
               x3 == FMul(F(519738, 10), FPow(bw, 3))
               x4 == FMul(F(267626, 12), FPow(bw, 4))
               x5 == FMul(F(540132, 15), FPow(bw, 5))
               x6 == FMul(F(728875, 19), FPow(bw, 6))
           IN  FSub(FSub(FAdd(FSub(FAdd(FSub(x0, x1), x2), x3), x4), x5), x6)
      ELSE IF FLe(bw, F(136, 0))
      THEN FSub(F(5210, 4), FMul(F(12, 4), FSub(bw, F(125, 0))))
      ELSE IF FLe(bw, F(146, 0))
      THEN FSub(F(5090, 4), FMul(F(11, 4), FSub(bw, F(135, 0))))
      ELSE IF FLe(bw, F(156, 0))
      THEN FSub(F(4980, 4), FMul(F(10, 4), FSub(bw, F(145, 0))))
      ELSE FSub(F(4879, 4), FMul(F(88185, 8), FSub(bw, F(155, 0))))

_schwartz(bodyweight_kg) ==
  ByValue(SchwartzOf, _clamp(bodyweight_kg, F(40, 0), F(166, 0)))

_malone(bodyweight_kg) ==
  LET a == F(106011586, 6)
      b == F(-129302713, 8)
      c == F(322935585, 9)
      power(bw) == FPowReal(bw, b)
  IN  FAdd(FMul(a, ByValue(power, PyMax(bodyweight_kg, F(2924, 2)))), c)

WilksCoeffs(gender_key) ==
  IF gender_key = <<"m", "a", "l", "e">>
  THEN <<F(-216047514, 6), F(162606339, 7), F(-2388645, 9),
         F(-113732, 8), F(701863, 11), F(-1291, 11)>>
  ELSE IF gender_key = <<"f", "e", "m", "a", "l", "e">>
  THEN <<F(594317478, 6), F(-272384254, 7), F(821122269, 9),
         F(-930733913, 11), F(4731582, 11), F(-9054, 11)>>
  ELSE <<>>

_wilks_coefficient(bodyweight_kg, gender) ==
  LET coeffs == WilksCoeffs(Lower(gender))
  IN  IF coeffs = <<>> THEN F(0, 0)
      ELSE _coefficient(F(500, 0), bodyweight_kg, coeffs)

calculate_glossbrenner(total_kg, bodyweight_kg, gender) ==
  IF Falsy(total_kg) \/ Falsy(bodyweight_kg) THEN Num(0)
  ELSE LET gender_key == Lower(gender)
           bw == KgFloat(bodyweight_kg)
           two == F(2, 0)
       IN  IF gender_key = <<"m", "a", "l", "e">>
           THEN LET coeff ==
                      IF FLt(bw, F(15305, 2))
                      THEN FDiv(FAdd(_schwartz(bw),
                                     _wilks_coefficient(bw, <<"m", "a", "l", "e">>)), two)
                      ELSE FDiv(FAdd(FAdd(_schwartz(bw), FMul(F(-821668403, 12), bw)),
                                     F(676940740, 9)), two)
                IN  ByValue(Round2, FMul(KgFloat(total_kg), coeff))
           ELSE IF gender_key = <<"f", "e", "m", "a", "l", "e">>
           THEN LET coeff ==
                      IF FLt(bw, F(1063, 1))
                      THEN FDiv(FAdd(_malone(bw),
                                     _wilks_coefficient(bw, <<"f", "e", "m", "a", "l", "e">>)), two)
                      ELSE FDiv(FAdd(FAdd(_malone(bw), FMul(F(-313738002, 12), bw)),
                                     F(852664893, 9)), two)
                IN  ByValue(Round2, FMul(KgFloat(total_kg), coeff))
           ELSE Num(0)


----------------------------------------------------------------------------
(* src/powertrack_app.py: the schema normalizer *)

(* A text cell is [k, s]: k = "str" with s the text, k = "none" for None,
   k = "nan" for a float NaN (an empty CSV cell), k = "na" for pd.NA. *)
Str(s) == [k |-> "str", s |-> s]
NoneText == [k |-> "none", s |-> <<>>]
NaNText == [k |-> "nan", s |-> <<>>]
NAText == [k |-> "na", s |-> <<>>]

MALE == <<"M", "A", "L", "E">>
FEMALE == <<"F", "E", "M", "A", "L", "E">>
UNSPECIFIED == <<"U", "N", "S", "P", "E", "C", "I", "F", "I", "E", "D">>

ATTEMPT_RESULT_COLUMNS ==
  {"S1HRef", "S2HRef", "S3HRef", "B1HRef", "B2HRef", "B3HRef",
   "D1HRef", "D2HRef", "D3HRef"}
ATTEMPT_WEIGHT_COLUMNS ==
  {"Squat 1", "Squat 2", "Squat 3", "Bench 1", "Bench 2", "Bench 3",
   "Deadlift 1", "Deadlift 2", "Deadlift 3"}
NUMERIC_ZERO_COLUMNS ==
  {"Best Squat", "Best Bench", "Best Deadlift", "Total",
   "Dots Points", "IPF Points", "Glossbrenner Points"}
OPTIONAL_STRING_COLUMNS == {"Weight Class", "State/Province", "Country", "Team"}
OPTIONAL_NUMERIC_COLUMNS == {"Exact Age"}

(* the scoring function of each point column *)
POINT_COMPUTERS(column, total, bodyweight, gender) ==
  CASE column = "Dots Points" -> calculate_dots(total, bodyweight, gender)
    [] column = "IPF Points" -> calculate_ipf_gl(total, bodyweight, gender)
    [] column = "Glossbrenner Points" -> calculate_glossbrenner(total, bodyweight, gender)

(* str(gender_value) *)
PyStr(cell) ==
  CASE cell.k = "str" -> cell.s
    [] cell.k = "nan" -> <<"n", "a", "n">>
    [] cell.k = "none" -> <<"N", "o", "n", "e">>
    [] cell.k = "na" -> <<"<", "N", "A", ">">>

(* `not gender_value`: None and the empty string are falsy, NaN is truthy *)
FalsyText(cell) == cell.k = "none" \/ (cell.k = "str" /\ cell.s = <<>>)

(* the text is stripped but not upper-cased *)
_normalize_gender_NoUpper(gender_value) ==
  IF FalsyText(gender_value) THEN UNSPECIFIED
  ELSE LET value == Strip(PyStr(gender_value))
       IN  IF value \in {<<"F">>, <<"F", "E", "M">>, FEMALE} THEN FEMALE
           ELSE IF value \in {<<"M">>, MALE} THEN MALE
           ELSE value

_normalize_gender(gender_value) ==
  IF FalsyText(gender_value) THEN UNSPECIFIED
  ELSE LET value == Upper(Strip(PyStr(gender_value)))
       IN  IF value \in {<<"F">>, <<"F", "E", "M">>, FEMALE} THEN FEMALE
           ELSE IF value \in {<<"M">>, MALE} THEN MALE
           ELSE value

(* pd.to_numeric(errors="coerce"), and the same followed by fillna(0.0) *)
ToNumeric(cell) == IF cell.k = "num" THEN cell ELSE NaN
ToNumericZero(cell) == IF cell.k = "num" THEN cell ELSE Num(0)

(* code point order of Python str comparison *)
CharCode(c) ==
  IF IndexIn(c, UpperCase) > 0 THEN 64 + IndexIn(c, UpperCase)
  ELSE IF IndexIn(c, LowerCase) > 0 THEN 96 + IndexIn(c, LowerCase)
  ELSE IF c = " " THEN 32
  ELSE IF c = "\t" THEN 9
  ELSE 63

RECURSIVE StrLess(_, _)
StrLess(a, b) ==
  IF b = <<>> THEN FALSE
  ELSE IF a = <<>> THEN TRUE
  ELSE IF CharCode(Head(a)) # CharCode(Head(b)) THEN CharCode(Head(a)) < CharCode(Head(b))
  ELSE StrLess(Tail(a), Tail(b))

(* ascending order of a numeric column with NaN last *)
NumLess(a, b) == a.k = "num" /\ (b.k = "nan" \/ a.v < b.v)

(* the sort with Total ascending *)
RowBefore_TotalAscending(a, b) ==
  \/ StrLess(a.Gender.s, b.Gender.s)
  \/ /\ a.Gender = b.Gender
     /\ \/ NumLess(a.Total, b.Total)
        \/ a.Total = b.Total /\ NumLess(a.BodyWeight, b.BodyWeight)

(* the order of sort_values(["Gender", "Total", "Body Weight (kg)"],
   ascending=[True, False, True]) *)
RowBefore(a, b) ==
  \/ StrLess(a.Gender.s, b.Gender.s)
  \/ /\ a.Gender = b.Gender
     /\ \/ NumLess(b.Total, a.Total)
        \/ a.Total = b.Total /\ NumLess(a.BodyWeight, b.BodyWeight)

(* a stable sort: a row goes behind every row that is not after it *)
RECURSIVE InsertRow(_, _)
InsertRow(sorted, r) ==
  IF sorted = <<>> THEN <<r>>
  ELSE IF RowBefore(r, Head(sorted)) THEN <<r>> \o sorted
  ELSE <<Head(sorted)>> \o InsertRow(Tail(sorted), r)

RECURSIVE SortRows(_)
SortRows(rows) ==
  IF rows = <<>> THEN <<>>
  ELSE InsertRow(SortRows(SubSeq(rows, 1, Len(rows) - 1)), rows[Len(rows)])

(* groupby("Gender").cumcount().add(1) at row i *)
CumCount(rows, i) == Cardinality({j \in 1..i : rows[j].Gender = rows[i].Gender})

NormalizeGenderStep(columns, row) ==
  [row EXCEPT !.Gender = IF "Gender" \in columns
                          THEN Str(_normalize_gender(row.Gender))
                          ELSE Str(UNSPECIFIED)]

(* the attempt-result columns are reset whether they exist or not *)
BackfillStep_Overwrite(columns, row) ==
  [row EXCEPT !.HRef = [c \in ATTEMPT_RESULT_COLUMNS |-> NAText]]

BackfillStep(columns, row) ==
  [row EXCEPT !.HRef = [c \in ATTEMPT_RESULT_COLUMNS |->
                          IF c \in columns THEN row.HRef[c] ELSE NAText]]

CoerceStep(columns, row) ==
  LET zero(c, cell) == IF c \in columns THEN ToNumericZero(cell) ELSE Num(0)
  IN  [row EXCEPT
         !.BodyWeight = IF "Body Weight (kg)" \in columns THEN ToNumeric(row.BodyWeight)
                        ELSE NaN,
         !.BestSquat = zero("Best Squat", row.BestSquat),
         !.BestBench = zero("Best Bench", row.BestBench),
         !.BestDeadlift = zero("Best Deadlift", row.BestDeadlift),
         !.Total = zero("Total", row.Total),
         !.Points = [c \in DOMAIN row.Points |-> zero(c, row.Points[c])]]

(* the Total is rebuilt from the best lifts in every row *)
TotalStep_Always(row) ==
  [row EXCEPT !.Total = Num(row.BestSquat.v + row.BestBench.v + row.BestDeadlift.v)]

TotalStep(row) ==
  LET needs_total == row.Total.k = "nan" \/ row.Total = Num(0)
  IN  IF needs_total
      THEN [row EXCEPT !.Total =
              Num(row.BestSquat.v + row.BestBench.v + row.BestDeadlift.v)]
      ELSE row

(* the points are recomputed in every row *)
PointsStep_All(row) ==
  [row EXCEPT !.Points = [column \in DOMAIN row.Points |->
     POINT_COMPUTERS(column, row.Total,
       IF Falsy(row.BodyWeight) THEN Num(0) ELSE row.BodyWeight, row.Gender.s)]]

PointsStep(row) ==
  [row EXCEPT !.Points = [column \in DOMAIN row.Points |->
     LET needs_update == row.Points[column].k = "nan" \/ row.Points[column] = Num(0)
     IN  IF needs_update
         THEN POINT_COMPUTERS(column, row.Total,
                IF Falsy(row.BodyWeight) THEN Num(0) ELSE row.BodyWeight,
                row.Gender.s)
         ELSE row.Points[column]]]

PlaceStep(columns, rows) ==
  LET coerced == [i \in 1..Len(rows) |->
                    [rows[i] EXCEPT !.Place = IF "Place" \in columns
                                              THEN ToNumeric(rows[i].Place) ELSE NaN]]
      rank(sorted) == [i \in 1..Len(sorted) |->
                         [sorted[i] EXCEPT !.Place = Num(CumCount(sorted, i))]]
      place(data) == IF \E i \in 1..Len(data) : data[i].Place.k = "nan"
                     THEN ByValue(rank, SortRows(data))
                     ELSE data
  IN  ByValue(place, coerced)

CanonicalColumns ==
  {"Gender", "Body Weight (kg)", "Awards Division", "Place"}
    \cup ATTEMPT_WEIGHT_COLUMNS \cup ATTEMPT_RESULT_COLUMNS
    \cup OPTIONAL_STRING_COLUMNS \cup OPTIONAL_NUMERIC_COLUMNS
    \cup NUMERIC_ZERO_COLUMNS

ensure_meet_dataframe(frame) ==
  LET gender(row) == NormalizeGenderStep(frame.columns, row)
      backfill(row) == BackfillStep(frame.columns, row)
      coerce(row) == CoerceStep(frame.columns, row)
      step(row) ==
        ByValue(PointsStep, ByValue(TotalStep, ByValue(coerce,
          ByValue(backfill, ByValue(gender, row)))))
      place(data) == PlaceStep(frame.columns, data)
  IN  [columns |-> frame.columns \cup CanonicalColumns,
       rows |-> ByValue(place, [i \in 1..Len(frame.rows) |-> step(frame.rows[i])])]


----------------------------------------------------------------------------
(* State *)

VARIABLES
  df,             \* the table: [columns, rows]
  prev,           \* the table the last call of ensure_meet_dataframe received
  calls,          \* the number of calls of ensure_meet_dataframe so far
  argTotal,       \* scoring: total_kg
  argBodyWeight,  \* scoring: bodyweight_kg
  argGender,      \* scoring: gender
  points,         \* scoring: the value each function returned, None before its call
  halfPoints,     \* scoring: the values returned for half the present total
  doubled,        \* scoring: whether the total has been doubled
  meetReference,  \* loader: meet_reference
  timeoutArg,     \* loader: timeout
  response,       \* loader: what liftingcast.com answers to a request
  requests,       \* loader: the HTTP requests issued so far
  loaded,         \* loader: what load_liftingcast_meet returned or raised
  refStats,       \* percentiles: a LiftPercentileStats
  liftValue,      \* percentiles: lift_value
  rankOf,         \* percentiles: what percentile_of returned
  bandOf,         \* percentiles: what _select_reference_band returned
  csv,            \* reference: the rows of the OpenIPF file, or no file
  reference,      \* reference: what load_openipf_reference_data holds
  query,          \* reference: the arguments of evaluate_percentile
  profile,        \* reference: what evaluate_percentile returned
  classArg,       \* weight class: bodyweight, gender and declared class
  category,       \* weight class: what get_weight_class_category returned
  lighter,        \* weight class: a lighter bodyweight and its category
  session,        \* app: st.session_state
  cache,          \* app: what st.cache_data holds for load_liftingcast_cached
  loads,          \* app: the loads liftingcast.com has answered so far
  up,             \* app: whether liftingcast.com answers a load now
  clock,          \* app: the time, in seconds
  runLog,         \* app: what the loads of the last run of main() ended with
  feed,           \* recent meets: the answer of the feed and the arguments
  meets           \* recent meets: what fetch_recent_liftingcast_meets returned

vars == <<df, prev, calls, argTotal, argBodyWeight, argGender, points,
          halfPoints, doubled, meetReference, timeoutArg, response, requests, loaded,
          refStats, liftValue, rankOf, bandOf, csv, reference, query, profile,
          classArg, category, lighter, session, cache, loads, up, clock, runLog,
          feed, meets>>

normVars == <<df, prev, calls>>
scoreVars == <<argTotal, argBodyWeight, argGender, points, halfPoints, doubled>>
loadVars == <<meetReference, timeoutArg, response, requests, loaded>>
rankVars == <<refStats, liftValue, rankOf, bandOf>>
referenceVars == <<csv, reference, query, profile>>
classVars == <<classArg, category, lighter>>
refVars == <<rankVars, referenceVars, classVars>>
sessionVars == <<session, cache, loads, up, clock, runLog>>
feedVars == <<feed, meets>>
appVars == <<sessionVars, feedVars>>

PointColumns == {"Dots Points", "IPF Points", "Glossbrenner Points"}

MaxRows == 2
MaxCalls == 2
MaxTotal == 6

----------------------------------------------------------------------------
(* Inputs of the normalizer *)

InputColumns ==
  {"Name", "Gender", "Body Weight (kg)", "Place"} \cup NUMERIC_ZERO_COLUMNS
    \cup ATTEMPT_RESULT_COLUMNS

ColumnSets ==
  {InputColumns, InputColumns \ {"Gender"}, InputColumns \ {"Place"},
   InputColumns \ ATTEMPT_RESULT_COLUMNS}

AllResults(cell) == [c \in ATTEMPT_RESULT_COLUMNS |-> cell]

(* the rows a table with the given columns can hold: a column that is not
   there has no cells, which the filler value stands for *)
RowsOver(columns, genders, bodyweights, bests, totals, pointSets, places, results) ==
  {[Name |-> 0, Gender |-> g, BodyWeight |-> bw,
    BestSquat |-> b[1], BestBench |-> b[2], BestDeadlift |-> b[3],
    Total |-> t, Points |-> p, Place |-> pl, HRef |-> h] :
     g \in IF "Gender" \in columns THEN genders ELSE {NoneText},
     bw \in bodyweights, b \in bests, t \in totals, p \in pointSets,
     pl \in IF "Place" \in columns THEN places ELSE {NaN},
     h \in IF ATTEMPT_RESULT_COLUMNS \subseteq columns THEN results
           ELSE {AllResults(NAText)}}

TablesOver(columns, rowSet) ==
  UNION {{[columns |-> columns,
           rows |-> [i \in 1..n |-> [r[i] EXCEPT !.Name = i]]] :
            r \in [1..n -> rowSet]} : n \in 1..MaxRows}

NoTable == [columns |-> {}, rows |-> <<>>]

ScoreIdle ==
  /\ argTotal = Num(0)
  /\ argBodyWeight = Num(0)
  /\ argGender = <<>>
  /\ points = [c \in PointColumns |-> None]
  /\ halfPoints = [c \in PointColumns |-> None]
  /\ doubled = FALSE

NormIdle ==
  /\ df = NoTable
  /\ prev = NoTable
  /\ calls = 0

NotCalled == [kind |-> "not called"]

LoadIdle ==
  /\ meetReference = <<>>
  /\ timeoutArg = 0
  /\ response = [transport |-> "none"]
  /\ requests = <<>>
  /\ loaded = NotCalled

NotAsked == [kind |-> "not asked"]

RankIdle ==
  /\ refStats = NotAsked
  /\ liftValue = 0
  /\ rankOf = NotAsked
  /\ bandOf = NotAsked

ReferenceIdle ==
  /\ csv = <<>>
  /\ reference = NotAsked
  /\ query = NotAsked
  /\ profile = NotAsked

ClassIdle ==
  /\ classArg = NotAsked
  /\ category = ""
  /\ lighter = NotAsked

RefIdle == RankIdle /\ ReferenceIdle /\ ClassIdle

(* no session has begun *)
SessionIdle ==
  /\ session = NotAsked
  /\ cache = <<>>
  /\ loads = 0
  /\ up = FALSE
  /\ clock = 0
  /\ runLog = NotAsked

FeedIdle ==
  /\ feed = NotAsked
  /\ meets = NotAsked

AppIdle == SessionIdle /\ FeedIdle

----------------------------------------------------------------------------
(* The normalizer: ensure_meet_dataframe applied to a table, and again to
   its own result *)

Normalize ==
  /\ calls < MaxCalls
  /\ prev' = df
  /\ df' = ensure_meet_dataframe(df)
  /\ calls' = calls + 1
  /\ UNCHANGED <<scoreVars, loadVars, refVars, appVars>>

NormNext == Normalize

GenderInputs ==
  {NoneText, NaNText, Str(<<>>), Str(<<" ">>), Str(<<"m">>),
   Str(<<" ", "F", "e", "m", " ">>), Str(<<"M", "A", "L", "E">>), Str(<<"x">>)}

ResultInputs ==
  {AllResults(Str(<<"g", "o", "o", "d">>)),
   [AllResults(NaNText) EXCEPT
      !["S1HRef"] = Str(<<"G", "o", "o", "d", " ", "L", "i", "f", "t">>),
      !["S2HRef"] = Str(<<"b", "a", "d">>),
      !["S3HRef"] = Str(<<"n", "o", " ", "l", "i", "f", "t">>),
      !["B1HRef"] = Str(<<"m", "i", "s", "s">>),
      !["B2HRef"] = NoneText]}

(* tables whose rows differ in gender and in attempt results *)
GenderRows(columns) ==
  RowsOver(columns, GenderInputs, {Num(82500)},
           {<<Num(100000), Num(60000), Num(120000)>>}, {Num(0)},
           {[c \in PointColumns |-> Num(10000)]}, {NaN}, ResultInputs)

Init ==
  /\ \E columns \in ColumnSets : df \in TablesOver(columns, GenderRows(columns))
  /\ prev = NoTable
  /\ calls = 0
  /\ AppIdle
  /\ ScoreIdle
  /\ LoadIdle
  /\ RefIdle

Spec == Init /\ [][NormNext]_vars


(* tables whose rows differ in gender, total, bodyweight and place *)
RankRows(columns) ==
  RowsOver(columns, {Str(<<"m">>), Str(<<"F">>)},
           {NaN, Num(60000), Num(90000)},
           {<<Num(100000), Num(60000), Num(120000)>>},
           {Num(280000), Num(300000)},
           {[c \in PointColumns |-> Num(10000)]},
           {NaN, Num(1)}, {AllResults(NaNText)})

RankInit ==
  /\ \E columns \in {InputColumns, InputColumns \ {"Place"}} :
       df \in TablesOver(columns, RankRows(columns))
  /\ prev = NoTable
  /\ calls = 0
  /\ AppIdle
  /\ ScoreIdle
  /\ LoadIdle
  /\ RefIdle

RankSpec == RankInit /\ [][NormNext]_vars

(* tables whose rows differ in total, best lifts, bodyweight and points *)
PointsInputs ==
  {[c \in PointColumns |-> NaN],
   [c \in PointColumns |->
      CASE c = "Dots Points" -> Num(12345)
        [] c = "IPF Points" -> Num(0)
        [] c = "Glossbrenner Points" -> Unparsable]}

FullBests == <<Num(100000), Num(60000), Num(120000)>>
PartBests == <<NaN, Num(60000), Unparsable>>

PointsRows(columns) ==
  RowsOver(columns, {Str(<<"m">>)}, {NaN, Num(82500)}, {FullBests},
           {NaN, Num(300000)}, PointsInputs, {NaN}, {AllResults(NaNText)})
    \cup
  RowsOver(columns, {Str(<<"m">>)}, {NaN, Num(82500)}, {PartBests},
           {Unparsable, Num(0)}, PointsInputs, {NaN}, {AllResults(NaNText)})
    \cup
  RowsOver(columns, {NaNText, Str(<<"F", "e", "m">>)}, {Unparsable, Num(82500)},
           {FullBests}, {Num(300000)}, {[c \in PointColumns |-> NaN]},
           {NaN}, {AllResults(NaNText)})

PointsInit ==
  /\ df \in TablesOver(InputColumns, PointsRows(InputColumns))
  /\ prev = NoTable
  /\ calls = 0
  /\ AppIdle
  /\ ScoreIdle
  /\ LoadIdle
  /\ RefIdle

PointsSpec == PointsInit /\ [][NormNext]_vars


----------------------------------------------------------------------------
(* src/powertrack_app.py: the read side of the attempt-result cells *)

RECURSIVE Contains(_, _)
Contains(s, sub) ==
  IF Len(s) < Len(sub) THEN FALSE
  ELSE IF SubSeq(s, 1, Len(sub)) = sub THEN TRUE
  ELSE Contains(Tail(s), sub)

interpret_attempt_status(value) ==
  IF value.k = "none" \/ value.k = "nan" THEN <<"p", "e", "n", "d", "i", "n", "g">>
  ELSE LET normalized == Lower(Strip(PyStr(value)))
       IN  IF normalized = <<>> THEN <<"p", "e", "n", "d", "i", "n", "g">>
           ELSE IF Contains(normalized, <<"g", "o", "o", "d">>) THEN <<"g", "o", "o", "d">>
           ELSE IF Contains(normalized, <<"b", "a", "d">>)
                     \/ Contains(normalized, <<"m", "i", "s", "s">>)
                THEN <<"m", "i", "s", "s">>
           ELSE <<"p", "e", "n", "d", "i", "n", "g">>

----------------------------------------------------------------------------
(* Reading a table *)

RowIndices(table) == 1..Len(table.rows)

(* the row of the table received by the last call that became row i of df *)
InputOf(i) == CHOOSE r \in {prev.rows[j] : j \in RowIndices(prev)} : r.Name = df.rows[i].Name

Missing(cell) == cell.k # "num"
MissingOrZero(cell) == cell.k # "num" \/ cell.v = 0

----------------------------------------------------------------------------
(* C1: normalizing a normalized table changes nothing: the result of the
   second call of ensure_meet_dataframe equals the table it received, in
   every cell and in row order. *)
C1_Idempotent == calls >= 2 => df = prev

(* C3, as claimed: after normalization the Gender of every row is MALE,
   FEMALE or UNSPECIFIED. *)
C3_GenderOneOfThree ==
  calls >= 1 =>
    \A i \in RowIndices(df) : df.rows[i].Gender \in {Str(MALE), Str(FEMALE), Str(UNSPECIFIED)}

(* C3, amended: after normalization the Gender of every row is a text that
   has no surrounding whitespace and no lower-case letter, and is never one
   of the abbreviations F, FEM, M; it is MALE, FEMALE, UNSPECIFIED or the
   text of the input cell, stripped and upper-cased. *)
C3_GenderCanonicalText ==
  calls >= 1 =>
    \A i \in RowIndices(df) :
      LET g == df.rows[i].Gender
      IN  /\ g.k = "str"
          /\ Strip(g.s) = g.s
          /\ \A n \in 1..Len(g.s) : IndexIn(g.s[n], LowerCase) = 0
          /\ g.s \notin {<<"F">>, <<"F", "E", "M">>, <<"M">>}
          /\ \/ g.s \in {MALE, FEMALE, UNSPECIFIED}
             \/ /\ "Gender" \in prev.columns
                /\ g.s = Upper(Strip(PyStr(InputOf(i).Gender)))

(* a free-text gender and a whitespace-only gender have been normalized *)
C3_Witness ==
  /\ calls = 1
  /\ \E i, j \in RowIndices(df) :
       /\ InputOf(i).Gender = Str(<<"x">>)
       /\ df.rows[i].Gender = Str(<<"X">>)
       /\ InputOf(j).Gender = Str(<<" ", "F", "e", "m", " ">>)
       /\ df.rows[j].Gender = Str(FEMALE)

(* C4: F, FEM, FEMALE (any case, whitespace ignored) become FEMALE, M and
   MALE become MALE, any other present value is upper-cased, and every
   missing value (absent column, None, empty string, NaN cell of a CSV)
   becomes UNSPECIFIED. *)
C4_GenderMapping ==
  calls >= 1 =>
    \A i \in RowIndices(df) :
      LET out == df.rows[i].Gender
          in == InputOf(i).Gender
          text == Upper(Strip(PyStr(in)))
      IN  IF "Gender" \notin prev.columns \/ in.k \in {"none", "nan", "na"}
             \/ in = Str(<<>>)
          THEN out = Str(UNSPECIFIED)
          ELSE IF text \in {<<"F">>, <<"F", "E", "M">>, FEMALE} THEN out = Str(FEMALE)
          ELSE IF text \in {<<"M">>, MALE} THEN out = Str(MALE)
          ELSE out = Str(text)

(* C8, as claimed: after normalization every attempt-result cell is good,
   miss, bad, pending or missing. *)
C8_ResultsPermitted ==
  calls >= 1 =>
    \A i \in RowIndices(df) : \A c \in ATTEMPT_RESULT_COLUMNS :
      LET cell == df.rows[i].HRef[c]
      IN  \/ cell.k \in {"none", "nan", "na"}
          \/ cell.s \in {<<"g", "o", "o", "d">>, <<"m", "i", "s", "s">>,
                         <<"b", "a", "d">>, <<"p", "e", "n", "d", "i", "n", "g">>}

(* C8, amended: the normalizer leaves every attempt-result cell as the input
   carried it, and fills the cells of an absent column with pd.NA; it is the
   read side (interpret_attempt_status) that maps whatever a cell holds to
   one of good, miss, pending. *)
C8_ResultsKept ==
  calls >= 1 =>
    \A i \in RowIndices(df) : \A c \in ATTEMPT_RESULT_COLUMNS :
      /\ df.rows[i].HRef[c] = IF c \in prev.columns THEN InputOf(i).HRef[c] ELSE NAText
      /\ interpret_attempt_status(df.rows[i].HRef[c])
           \in {<<"g", "o", "o", "d">>, <<"m", "i", "s", "s">>,
                <<"p", "e", "n", "d", "i", "n", "g">>}

(* a table with a free-text result cell has been normalized, and the cell is
   read as good *)
C8_Witness ==
  /\ calls = 1
  /\ \E i \in RowIndices(df) :
       /\ df.rows[i].HRef["S1HRef"] = Str(<<"G", "o", "o", "d", " ", "L", "i", "f", "t">>)
       /\ df.rows[i].HRef["S3HRef"] = Str(<<"n", "o", " ", "l", "i", "f", "t">>)
       /\ interpret_attempt_status(df.rows[i].HRef["S1HRef"]) = <<"g", "o", "o", "d">>
       /\ interpret_attempt_status(df.rows[i].HRef["S3HRef"])
            = <<"p", "e", "n", "d", "i", "n", "g">>


----------------------------------------------------------------------------
(* Ranking *)

SameGender(table, i, j) == table.rows[i].Gender = table.rows[j].Gender

(* within every gender group the places are exactly 1..N *)
PlacesArePermutation(table) ==
  \A i \in RowIndices(table) :
    LET group == {j \in RowIndices(table) : SameGender(table, i, j)}
    IN  /\ \A j \in group : table.rows[j].Place.k = "num"
        /\ {table.rows[j].Place.v : j \in group} = 1..Cardinality(group)
        /\ \A j, k \in group : table.rows[j].Place = table.rows[k].Place => j = k

(* the row with place k has Total >= the row with place k + 1 *)
TotalsDescend(table) ==
  \A i, j \in RowIndices(table) :
    (SameGender(table, i, j) /\ table.rows[i].Place.k = "num"
       /\ table.rows[j].Place.k = "num"
       /\ table.rows[j].Place.v = table.rows[i].Place.v + 1)
      => table.rows[i].Total.v >= table.rows[j].Total.v

(* rows of equal Total are placed by ascending bodyweight *)
TiesByBodyWeight(table) ==
  \A i, j \in RowIndices(table) :
    (SameGender(table, i, j) /\ table.rows[i].Total = table.rows[j].Total
       /\ table.rows[i].Place.k = "num" /\ table.rows[j].Place.k = "num"
       /\ table.rows[i].Place.v < table.rows[j].Place.v
       /\ table.rows[i].BodyWeight.k = "num" /\ table.rows[j].BodyWeight.k = "num")
      => table.rows[i].BodyWeight.v <= table.rows[j].BodyWeight.v

(* among rows of equal Total a missing bodyweight is placed last *)
MissingBodyWeightLast(table) ==
  \A i, j \in RowIndices(table) :
    (SameGender(table, i, j) /\ table.rows[i].Total = table.rows[j].Total
       /\ table.rows[i].Place.v < table.rows[j].Place.v
       /\ table.rows[i].BodyWeight.k = "nan")
      => table.rows[j].BodyWeight.k = "nan"

(* the input's Place column is absent or has a missing or non-numeric cell *)
PlaceIncomplete(table) ==
  \/ "Place" \notin table.columns
  \/ \E i \in RowIndices(table) : table.rows[i].Place.k # "num"

(* C2, as claimed: after normalization of any table, within every gender
   group the places are a permutation of 1..N, totals do not increase with
   the place, and equal totals are placed by ascending bodyweight. *)
C2_RankingAlways ==
  calls >= 1 => PlacesArePermutation(df) /\ TotalsDescend(df) /\ TiesByBodyWeight(df)

(* C2, amended: the ranking invariant holds after normalization of a table
   whose Place column is absent or has a missing or non-numeric cell (a
   missing bodyweight is placed last among equal totals); a table whose
   Place cells are all numeric keeps its places and its row order. *)
C2_RankingWhenRecomputed ==
  calls >= 1 =>
    IF PlaceIncomplete(prev)
    THEN /\ PlacesArePermutation(df)
         /\ TotalsDescend(df)
         /\ TiesByBodyWeight(df)
         /\ MissingBodyWeightLast(df)
    ELSE \A i \in RowIndices(df) :
           /\ df.rows[i].Name = prev.rows[i].Name
           /\ df.rows[i].Place = prev.rows[i].Place

(* places were recomputed and the sort moved a lighter lifter of the same
   gender and total in front of a heavier one that came first in the input *)
C2_Witness ==
  /\ calls = 1
  /\ PlaceIncomplete(prev)
  /\ \E i, j \in RowIndices(df) :
       /\ i < j
       /\ SameGender(df, i, j)
       /\ df.rows[i].Total = df.rows[j].Total
       /\ df.rows[i].BodyWeight = Num(60000)
       /\ df.rows[j].BodyWeight = Num(90000)
       /\ df.rows[i].Name > df.rows[j].Name
       /\ df.rows[i].Place = Num(1)
       /\ df.rows[j].Place = Num(2)

----------------------------------------------------------------------------
(* Totals and points *)

ZeroIfMissing(cell) == IF cell.k = "num" THEN cell.v ELSE 0

(* C5: a row whose Total is missing, unparsable or zero gets the sum of its
   three best lifts (a missing best lift counts 0); a row whose Total is
   nonzero keeps it, also when it differs from that sum. *)
C5_TotalRecomputation ==
  calls >= 1 =>
    \A i \in RowIndices(df) :
      LET in == InputOf(i)
          sum == ZeroIfMissing(in.BestSquat) + ZeroIfMissing(in.BestBench)
                   + ZeroIfMissing(in.BestDeadlift)
      IN  IF MissingOrZero(in.Total) THEN df.rows[i].Total = Num(sum)
          ELSE df.rows[i].Total = in.Total

(* one row's unparsable Total was rebuilt from partly missing best lifts and
   another row kept a nonzero Total that differs from the sum of its lifts *)
C5_Witness ==
  /\ calls = 1
  /\ \E i, j \in RowIndices(df) :
       /\ InputOf(i).Total = Unparsable
       /\ InputOf(i).BestSquat = NaN
       /\ df.rows[i].Total = Num(60000)
       /\ InputOf(j).Total = Num(300000)
       /\ InputOf(j).BestSquat = Num(100000)
       /\ InputOf(j).BestBench = Num(60000)
       /\ InputOf(j).BestDeadlift = Num(120000)
       /\ df.rows[j].Total = Num(300000)

(* C6: a point cell that is missing or zero is recomputed by the scoring
   function of its column from the row's recomputed Total, its bodyweight
   and its normalized gender; a nonzero point cell is left as it is, whatever
   happens to the other cells and rows. *)
C6_PointRecomputation ==
  calls >= 1 =>
    \A i \in RowIndices(df) : \A column \in PointColumns :
      LET in == InputOf(i)
          out == df.rows[i]
      IN  IF MissingOrZero(in.Points[column])
          THEN out.Points[column] =
                 POINT_COMPUTERS(column, out.Total, out.BodyWeight, out.Gender.s)
          ELSE out.Points[column] = in.Points[column]

(* one row's missing DOTS points were computed from its rebuilt Total while
   another row kept the nonzero DOTS points it came with *)
C6_Witness ==
  /\ calls = 1
  /\ \E i, j \in RowIndices(df) :
       /\ i # j
       /\ InputOf(i).Points["Dots Points"] = NaN
       /\ InputOf(i).Total = NaN
       /\ df.rows[i].Total = Num(280000)
       /\ df.rows[i].Points["Dots Points"].k = "num"
       /\ df.rows[i].Points["Dots Points"].v > 0
       /\ InputOf(j).Points["Dots Points"] = Num(12345)
       /\ df.rows[j].Points["Dots Points"] = Num(12345)
       /\ InputOf(j).Points["IPF Points"] = Num(0)
       /\ df.rows[j].Points["IPF Points"].v > 0

(* C7: after normalization a row whose bodyweight is missing or unparsable
   has 0.0 in every point cell the normalizer computed for it, never a
   not-a-number. *)
C7_MissingBodyWeightScoresZero ==
  calls >= 1 =>
    \A i \in RowIndices(df) : \A column \in PointColumns :
      (Missing(InputOf(i).BodyWeight) /\ MissingOrZero(InputOf(i).Points[column]))
        => df.rows[i].Points[column] = Num(0)


----------------------------------------------------------------------------
(* The scoring engine called on its own: each function once on
   (total, bodyweight, gender), then once more on twice the total *)

TotalInputs == {Num(0), NaN} \cup {Num(100000 + 2500 * t) : t \in 1..MaxTotal}

BodyWeightInputs == {Num(0), NaN, Num(40000), Num(82500), Num(160000)}

ScoreGenderInputs ==
  {MALE, FEMALE, <<"m", "a", "l", "e">>, <<"F", "e", "m", "a", "l", "e">>,
   <<"a", "l", "i", "e", "n">>, <<>>, <<" ", "m", "a", "l", "e">>, UNSPECIFIED}

ScoreInit ==
  /\ AppIdle
  /\ NormIdle
  /\ LoadIdle
  /\ RefIdle
  /\ argTotal \in TotalInputs
  /\ argBodyWeight \in BodyWeightInputs
  /\ argGender \in ScoreGenderInputs
  /\ points = [c \in PointColumns |-> None]
  /\ halfPoints = [c \in PointColumns |-> None]
  /\ doubled = FALSE

Call(column) ==
  /\ points[column] = None
  /\ points' = [points EXCEPT ![column] =
                  POINT_COMPUTERS(column, argTotal, argBodyWeight, argGender)]
  /\ UNCHANGED <<argTotal, argBodyWeight, argGender, halfPoints, doubled>>
  /\ UNCHANGED <<normVars, loadVars, refVars, appVars>>

CallDots == Call("Dots Points")
CallIpfGl == Call("IPF Points")
CallGlossbrenner == Call("Glossbrenner Points")

DoubleTotal ==
  /\ ~doubled
  /\ argTotal.k = "num"
  /\ \A c \in PointColumns : points[c] # None
  /\ argTotal' = Num(2 * argTotal.v)
  /\ halfPoints' = points
  /\ points' = [c \in PointColumns |-> None]
  /\ doubled' = TRUE
  /\ UNCHANGED <<argBodyWeight, argGender>>
  /\ UNCHANGED <<normVars, loadVars, refVars, appVars>>

ScoreNext ==
  \/ CallDots
  \/ CallIpfGl
  \/ CallGlossbrenner
  \/ DoubleTotal

ScoreSpec == ScoreInit /\ [][ScoreNext]_vars

Called(column) == points[column] # None

(* C9: each scoring function returns exactly 0.0 when the total is zero, or
   the bodyweight is zero, or the gender is not male/female in any case. *)
C9_DegenerateInputsScoreZero ==
  \A column \in PointColumns :
    (/\ Called(column)
     /\ \/ argTotal = Num(0)
        \/ argBodyWeight = Num(0)
        \/ Lower(argGender) \notin {Lower(MALE), Lower(FEMALE)})
      => points[column] = Num(0)

(* all three functions have returned for a positive total and bodyweight and
   a gender that is no known category *)
C9_Witness ==
  /\ \A column \in PointColumns : Called(column) /\ points[column] = Num(0)
  /\ argTotal.k = "num" /\ argTotal.v > 0
  /\ argBodyWeight = Num(82500)
  /\ argGender = <<"a", "l", "i", "e", "n">>

ProportionalCase ==
  /\ doubled
  /\ argTotal.k = "num" /\ argTotal.v > 0
  /\ argBodyWeight.k = "num" /\ argBodyWeight.v > 0
  /\ argGender \in {MALE, FEMALE}

(* C10, as claimed: the points for twice the total are exactly twice the
   points for the total. *)
C10_DoublingExact ==
  \A column \in PointColumns :
    (ProportionalCase /\ Called(column))
      => points[column] = Num(2 * halfPoints[column].v)

(* C10, amended: the points for twice the total are twice the points for the
   total to within 0.01, one unit of the 2-decimal rounding that each result
   gets on its own. *)
C10_DoublingWithinRounding ==
  \A column \in PointColumns :
    (ProportionalCase /\ Called(column))
      => /\ points[column].k = "num"
         /\ halfPoints[column].k = "num"
         /\ points[column].v - 2 * halfPoints[column].v \in {-1, 0, 1}

(* a function has returned points for twice the total that are 0.01 away
   from twice the points for the total *)
C10_Witness ==
  /\ ProportionalCase
  /\ \E column \in PointColumns :
       /\ Called(column)
       /\ halfPoints[column].v > 0
       /\ points[column].v - 2 * halfPoints[column].v \in {-1, 1}

----------------------------------------------------------------------------
(* src/liftingcast_loader.py: the LiftingCast adapter *)

(* A weight is a count of thousandths, of a kilogram or of a pound as the
   meet's units say.  A field of a JSON document is a cell: None stands for
   null and for a key that is not there, which doc.get(key) does not tell
   apart; Absent is a key that is not there where doc.get has a default;
   Unparsable is a value float() rejects. *)
Absent == [k |-> "absent", s |-> <<>>]

(* the call of a method on None inside an expression *)
Raised == [k |-> "raise", v |-> 0]

(* kilograms per pound, in units of 1e-8 *)
KG_PER_POUND == 45359237

KG == <<"K", "G">>
LBS == <<"L", "B", "S">>
GOOD == <<"g", "o", "o", "d">>

LiftNames == {"squat", "bench", "dead"}
AttemptNumbers == 1..3

IsLetter(c) == IndexIn(c, UpperCase) > 0 \/ IndexIn(c, LowerCase) > 0

(* str.title(): a letter is upper-cased at the start of a word and
   lower-cased inside it *)
Title(s) ==
  [i \in 1..Len(s) |->
     IF i = 1 \/ ~IsLetter(s[i - 1]) THEN UpperChar(s[i]) ELSE LowerChar(s[i])]

(* round(numeric * KG_PER_POUND, 3) for a non-negative count of thousandths
   of a pound: the product is exact, and no weight of the model lies on a
   rounding tie *)
PoundsToKg(numeric) == (MulCut(numeric, KG_PER_POUND, 7) + 5) \div 10

(* the conversion done for every unit string *)
_convert_weight_AnyUnits(value, units) ==
  IF value.k = "none" THEN None
  ELSE IF value.k = "str" THEN None
  ELSE IF units.k = "none" THEN Raised
  ELSE IF value.k = "nan" THEN NaN ELSE Num(PoundsToKg(value.v))

_convert_weight(value, units) ==
  IF value.k = "none" THEN None
  ELSE IF value.k = "str" THEN None
  ELSE IF units.k = "none" THEN Raised
  ELSE IF Upper(units.s) = LBS
       THEN IF value.k = "nan" THEN NaN ELSE Num(PoundsToKg(value.v))
  ELSE value

(* what a call ends with: a returned (table, metadata) or a raised
   exception, whose message names a meet or names none *)
Return(rows, meet_id, units) ==
  [kind |-> "return", type |-> "", meet_id |-> meet_id, rows |-> rows, units |-> units,
   equipment |-> NoneText]
Raise(type, meet_id) ==
  [kind |-> "raise", type |-> type, meet_id |-> meet_id, rows |-> <<>>, units |-> Absent,
   equipment |-> NoneText]

(* the last path part taken for the meet id *)
_parse_meet_id_LastPart(raw_value) ==
  IF raw_value.text \in {"empty", "blank"} THEN [ok |-> FALSE, meet_id |-> ""]
  ELSE IF raw_value.url
       THEN IF "meets" \notin {raw_value.parts[i] : i \in 1..Len(raw_value.parts)}
            THEN [ok |-> FALSE, meet_id |-> ""]
            ELSE [ok |-> TRUE, meet_id |-> raw_value.parts[Len(raw_value.parts)]]
  ELSE [ok |-> TRUE, meet_id |-> raw_value.parts[1]]

(* A meet reference is an empty string, a blank string, a bare meet id
   (parts = <<id>>) or a liftingcast.com URL with the given path parts. *)
_parse_meet_id(raw_value) ==
  IF raw_value.text \in {"empty", "blank"} THEN [ok |-> FALSE, meet_id |-> ""]
  ELSE IF raw_value.url
       THEN LET parts == raw_value.parts
                at == {i \in 1..Len(parts) : parts[i] = "meets"}
                meet_idx == 1 + CHOOSE i \in at : \A j \in at : i <= j
            IN  IF at = {} THEN [ok |-> FALSE, meet_id |-> ""]
                ELSE IF meet_idx > Len(parts) THEN [ok |-> FALSE, meet_id |-> ""]
                ELSE [ok |-> TRUE, meet_id |-> parts[meet_idx]]
  ELSE [ok |-> TRUE, meet_id |-> raw_value.parts[1]]

(* the one requests.get of a call *)
Request(meet_id, timeout) == [meet_id |-> meet_id, timeout |-> timeout]

(* a second request after a failed one *)
_fetch_meet_docs_Retry(meet_id, timeout, answer) ==
  IF answer.transport = "error" \/ answer.status >= 400
  THEN [issued |-> <<Request(meet_id, timeout), Request(meet_id, timeout)>>,
        result |-> Raise("LiftingCastError", "")]
  ELSE [issued |-> <<Request(meet_id, timeout)>>,
        result |-> Return(<<>>, meet_id, Absent)]

(* the result is the raised exception, or a Return that stands for the docs
   list going back to the caller *)
_fetch_meet_docs(meet_id, timeout, answer) ==
  [issued |-> <<Request(meet_id, timeout)>>,
   result |->
     IF answer.transport = "error" THEN Raise("LiftingCastError", "")
     ELSE IF answer.status = 404 THEN Raise("LiftingCastError", meet_id)
     ELSE IF answer.status >= 400 /\ answer.status < 600 THEN Raise("LiftingCastError", "")
     ELSE IF answer.body = "text" THEN Raise("JSONDecodeError", "")
     ELSE IF answer.body = "array" THEN Raise("AttributeError", "")
     ELSE IF answer.docs # "list" THEN Raise("LiftingCastError", "")
     ELSE Return(<<>>, meet_id, Absent)]

(* metadata.units: the units of the document whose _id is the meet id *)
_extract_meet_metadata(meet_id, docs) ==
  IF docs.meet.id = meet_id /\ docs.meet.units # Absent THEN docs.meet.units ELSE Str(KG)

(* The _id of a document is known by its first character: "" stands for an
   empty string and for a key that is not there, which doc.get("_id", "")
   does not tell apart, and NullId for null.  The id field of a document
   is what tells it from the other documents. *)
DocId(first) == [k |-> "str", first |-> first]
NullId == [k |-> "none", first |-> ""]

(* the documents both loops of load_liftingcast_meet go through: the
   division documents and the document of the meet are kept apart, no loop
   but _build_division_lookup and _extract_meet_metadata takes one *)
AllDocs(docs) == docs.lifters \o docs.attempts

(* doc_id.startswith on a null _id *)
IdRaises(docs) == \E i \in 1..Len(AllDocs(docs)) : AllDocs(docs)[i]._id.k = "none"

(* an attempt document is taken when its _id starts with "a", it has the
   key lifterId, its liftName is truthy and its attemptNumber reads "1",
   "2" or "3" *)
AttemptTaken(doc) ==
  /\ doc._id.first = "a"
  /\ doc.hasLifterId
  /\ doc.liftName # ""
  /\ doc.attemptNumber \in AttemptNumbers

(* the lifter ids and lift names attempts are recorded under *)
AttemptLifters(docs) == {AllDocs(docs)[i].id : i \in 1..Len(AllDocs(docs))}
                          \cup {AllDocs(docs)[i].lifterId : i \in 1..Len(AllDocs(docs))}
AttemptLifts(docs) == LiftNames \cup ({AllDocs(docs)[i].liftName : i \in 1..Len(AllDocs(docs))} \ {""})

(* the first document of a key is kept *)
_collect_attempts_FirstWins(docs, units) ==
  [lifter_id \in AttemptLifters(docs) |->
    [lift_name \in AttemptLifts(docs) |->
      [attempt_number \in AttemptNumbers |->
        LET taken == {i \in 1..Len(AllDocs(docs)) :
                        /\ AttemptTaken(AllDocs(docs)[i])
                        /\ AllDocs(docs)[i].lifterId = lifter_id
                        /\ AllDocs(docs)[i].liftName = lift_name
                        /\ AllDocs(docs)[i].attemptNumber = attempt_number}
            first == CHOOSE i \in taken : \A j \in taken : i <= j
        IN  IF taken = {} THEN [weight |-> None, result |-> NoneText]
            ELSE [weight |-> _convert_weight(AllDocs(docs)[first].weight, units),
                  result |-> AllDocs(docs)[first].result]]]]

NoAttempt == [weight |-> None, result |-> NoneText]

(* attempt_map[lifter_id][lift_name][attempt_number]: the last document
   taken for the key; a key with no document reads as NoAttempt, as
   attempts.get(attempt_no, {}) reads it *)
_collect_attempts(docs, units) ==
  [lifter_id \in AttemptLifters(docs) |->
    [lift_name \in AttemptLifts(docs) |->
      [attempt_number \in AttemptNumbers |->
        LET taken == {i \in 1..Len(AllDocs(docs)) :
                        /\ AttemptTaken(AllDocs(docs)[i])
                        /\ AllDocs(docs)[i].lifterId = lifter_id
                        /\ AllDocs(docs)[i].liftName = lift_name
                        /\ AllDocs(docs)[i].attemptNumber = attempt_number}
            last == CHOOSE i \in taken : \A j \in taken : j <= i
        IN  IF taken = {} THEN NoAttempt
            ELSE [weight |-> _convert_weight(AllDocs(docs)[last].weight, units),
                  result |-> AllDocs(docs)[last].result]]]]

(* lookup[division_id]: the last document whose _id starts with "d" and
   that has the key weightClasses *)
_build_division_lookup(docs) ==
  [division_id \in {docs.divisions[i].id :
                      i \in {j \in 1..Len(docs.divisions) :
                               /\ docs.divisions[j]._id.k = "str"
                               /\ docs.divisions[j]._id.first = "d"
                               /\ docs.divisions[j].hasWeightClasses}} |->
     docs.divisions[CHOOSE i \in 1..Len(docs.divisions) :
                      /\ docs.divisions[i].id = division_id
                      /\ docs.divisions[i]._id.first = "d"
                      /\ docs.divisions[i].hasWeightClasses
                      /\ \A j \in 1..Len(docs.divisions) :
                           (/\ docs.divisions[j].id = division_id
                            /\ docs.divisions[j]._id.first = "d"
                            /\ docs.divisions[j].hasWeightClasses) => j <= i]]

Resolved(division_name, weight_class, equipment) ==
  [division_name |-> division_name, weight_class |-> weight_class, equipment |-> equipment]

(* division_lookup.get(division_id, {}) without the division *)
NoDivision == [name |-> NoneText, weightClasses |-> <<>>]

ResolveIn(primary, division_doc) ==
  Resolved(division_doc.name,
           IF /\ primary.declaredAwardsWeightClassId # ""
              /\ primary.declaredAwardsWeightClassId \in DOMAIN division_doc.weightClasses
           THEN division_doc.weightClasses[primary.declaredAwardsWeightClassId]
           ELSE NoneText,
           primary.rawOrEquipped)

(* the first division a weight class is found in *)
_resolve_weight_class_FirstResolved(divisions, division_lookup) ==
  LET resolved(i) ==
        ResolveIn(divisions[i],
                  IF divisions[i].divisionId \in DOMAIN division_lookup
                  THEN division_lookup[divisions[i].divisionId] ELSE NoDivision)
      found == {i \in 1..Len(divisions) : resolved(i).weight_class # NoneText}
  IN  IF divisions = <<>> THEN Resolved(NoneText, NoneText, NoneText)
      ELSE IF found = {} THEN resolved(1)
      ELSE resolved(CHOOSE i \in found : \A j \in found : i <= j)

(* a declaredAwardsWeightClassId of "" stands for an id that is falsy or
   not there *)
_resolve_weight_class(divisions, division_lookup) ==
  IF divisions = <<>> THEN Resolved(NoneText, NoneText, NoneText)
  ELSE ResolveIn(divisions[1],
                 IF divisions[1].divisionId \in DOMAIN division_lookup
                 THEN division_lookup[divisions[1].divisionId] ELSE NoDivision)

MIXED == <<"M", "i", "x", "e", "d">>

(* every tag but the empty ones counts *)
_collect_equipment_NoneCounts(values) ==
  LET all == {values[i] : i \in 1..Len(values)}
      filtered == {value \in all : value.k = "str" /\ value.s # <<>>}
  IN  IF filtered = {} THEN NoneText
      ELSE IF Cardinality(all) = 1 THEN Str(Title((CHOOSE value \in filtered : TRUE).s))
      ELSE Str(MIXED)

_collect_equipment(values) ==
  LET filtered == {value \in {values[i] : i \in 1..Len(values)} :
                     value.k = "str" /\ value.s # <<>>}
  IN  IF filtered = {} THEN NoneText
      ELSE IF Cardinality(filtered) = 1 THEN Str(Title((CHOOSE value \in filtered : TRUE).s))
      ELSE Str(MIXED)

(* the heaviest attempt whatever its result *)
_best_lift_AnyResult(attempts) ==
  LET best[n \in 0..3] ==
        IF n = 0 THEN 0
        ELSE IF attempts[n].weight.k # "num" THEN best[n - 1]
        ELSE IF attempts[n].weight.v > best[n - 1] THEN attempts[n].weight.v
        ELSE best[n - 1]
  IN  Num(best[3])

(* weight > best is false for a NaN weight; round(best, 3) changes no count
   of thousandths *)
_best_lift(attempts) ==
  LET best[n \in 0..3] ==
        IF n = 0 THEN 0
        ELSE IF attempts[n].weight.k = "none" \/ attempts[n].result # Str(GOOD)
             THEN best[n - 1]
        ELSE IF attempts[n].weight.k = "num" /\ attempts[n].weight.v > best[n - 1]
             THEN attempts[n].weight.v
        ELSE best[n - 1]
  IN  Num(best[3])

(* doc.get("gender", "").upper() or None *)
LifterGender(doc) ==
  IF doc.gender = Absent \/ doc.gender.s = <<>> THEN NoneText ELSE Str(Upper(doc.gender.s))

(* the row of a lifter once its best lifts and total are known; the three
   point cells go through pd.to_numeric(errors="coerce").fillna(0.0) *)
ScoredRow(doc, gender, body_weight, attempts, best_squat, best_bench, best_dead, total, division) ==
  [LifterID |-> doc.id,
   Gender |-> gender,
   WeightClass |-> division.weight_class,
   AwardsDivision |-> division.division_name,
   BodyWeight |-> ToNumeric(body_weight),
   BestSquat |-> best_squat,
   BestBench |-> best_bench,
   BestDeadlift |-> best_dead,
   Total |-> total,
   Points |-> [column \in {"Dots Points", "IPF Points", "Glossbrenner Points"} |->
                 ToNumericZero(POINT_COMPUTERS(column, total,
                                 IF Falsy(body_weight) THEN Num(0) ELSE body_weight,
                                 gender.s))],
   Weight |-> [lift \in LiftNames |-> [n \in AttemptNumbers |-> attempts[lift][n].weight]],
   HRef |-> [lift \in LiftNames |-> [n \in AttemptNumbers |-> attempts[lift][n].result]],
   Place |-> 0]

BestRow(doc, gender, body_weight, attempts, best_squat, best_bench, best_dead, division) ==
  ScoredRow(doc, gender, body_weight, attempts, best_squat, best_bench, best_dead,
            Num(best_squat.v + best_bench.v + best_dead.v), division)

LifterRow(doc, attempts, units, division_lookup) ==
  BestRow(doc, LifterGender(doc), _convert_weight(doc.bodyWeight, units), attempts,
          _best_lift(attempts["squat"]), _best_lift(attempts["bench"]),
          _best_lift(attempts["dead"]),
          _resolve_weight_class(doc.listed, division_lookup))

(* the order of sort_values(["Gender", "Total", "Body Weight (kg)"],
   ascending=[True, False, True]) on the loaded rows: a None gender and a
   NaN bodyweight go last *)
GenderLess(a, b) == a.k = "str" /\ (b.k = "none" \/ StrLess(a.s, b.s))

LoadedRowBefore_BodyWeightDescending(a, b) ==
  \/ GenderLess(a.Gender, b.Gender)
  \/ /\ a.Gender = b.Gender
     /\ \/ NumLess(b.Total, a.Total)
        \/ a.Total = b.Total /\ NumLess(b.BodyWeight, a.BodyWeight)

LoadedRowBefore(a, b) ==
  \/ GenderLess(a.Gender, b.Gender)
  \/ /\ a.Gender = b.Gender
     /\ \/ NumLess(b.Total, a.Total)
        \/ a.Total = b.Total /\ NumLess(a.BodyWeight, b.BodyWeight)

(* the stable sort: row i of the result is the row with i - 1 rows ahead of
   it, a row being ahead of another when it sorts before it or sorts equal
   and stood before it *)
SortLoaded(rows) ==
  LET ahead(j, i) == \/ LoadedRowBefore(rows[j], rows[i])
                     \/ ~LoadedRowBefore(rows[i], rows[j]) /\ j < i
      rank(i) == Cardinality({j \in 1..Len(rows) : ahead(j, i)})
  IN  [p \in 1..Len(rows) |-> rows[CHOOSE i \in 1..Len(rows) : rank(i) = p - 1]]

(* df.groupby("Gender").cumcount().add(1).astype(int): the rows without a
   gender are in no group.  pandas from 1.5 on gives them NaN, which
   astype(int) refuses with a ValueError; pandas before 1.5 counts them as
   a group of their own. *)
PandasBuilds == {"before 1.5", "from 1.5"}

RankLoaded(sorted) ==
  [i \in 1..Len(sorted) |-> [sorted[i] EXCEPT !.Place = CumCount(sorted, i)]]

(* metadata.equipment is set once the table is placed *)
PlaceLoaded(meet_id, units, rows, pandas, equipment_values) ==
  IF pandas = "from 1.5" /\ \E i \in 1..Len(rows) : rows[i].Gender = NoneText
  THEN Raise("ValueError", "")
  ELSE [Return(ByValue(RankLoaded, SortLoaded(rows)), meet_id, units)
          EXCEPT !.equipment = _collect_equipment(equipment_values)]

(* a row is made of a document whose _id starts with "l", that has no key
   lifterId and has the key divisions *)
IsLifterDoc(doc) == doc._id.first = "l" /\ ~doc.hasLifterId /\ doc.divisions

(* the part of load_liftingcast_meet after the documents have arrived *)
LoadDocs(meet_id, docs, units, pandas) ==
  LET lifters == SelectSeq(AllDocs(docs), IsLifterDoc)
      attempts == _collect_attempts(docs, units)
      division_lookup == _build_division_lookup(docs)
      row(i) == LifterRow(lifters[i], attempts[lifters[i].id], units, division_lookup)
  IN  IF \/ IdRaises(docs)
         \/ \E i \in 1..Len(AllDocs(docs)) :
              /\ AttemptTaken(AllDocs(docs)[i])
              /\ _convert_weight(AllDocs(docs)[i].weight, units) = Raised
         \/ \E i \in 1..Len(lifters) :
              _convert_weight(lifters[i].bodyWeight, units) = Raised
      THEN Raise("AttributeError", "")
      ELSE IF lifters = <<>> THEN Raise("LiftingCastError", meet_id)
      ELSE PlaceLoaded(meet_id, units, [i \in 1..Len(lifters) |-> ByValue(row, i)], pandas,
                       [i \in 1..Len(lifters) |->
                          _resolve_weight_class(lifters[i].listed, division_lookup).equipment])

FetchedDocs(fetched, meet_id, answer, pandas) ==
  [issued |-> fetched.issued,
   result |-> IF fetched.result.kind = "raise" THEN fetched.result
              ELSE LoadDocs(meet_id, answer.list,
                            _extract_meet_metadata(meet_id, answer.list), pandas)]

load_liftingcast_meet(meet_reference, timeout, answer, pandas) ==
  LET parsed == _parse_meet_id(meet_reference)
  IN  IF ~parsed.ok THEN [issued |-> <<>>, result |-> Raise("ValueError", "")]
      ELSE FetchedDocs(_fetch_meet_docs(parsed.meet_id, timeout, answer),
                       parsed.meet_id, answer, pandas)

----------------------------------------------------------------------------
(* The adapter called once on a meet reference, against a server whose
   answer is fixed beforehand *)

MaxLifters == 2
MaxAttemptDocs == 3

FinishLoad(call) ==
  /\ requests' = requests \o call.issued
  /\ loaded' = call.result

LoadMeet ==
  /\ loaded.kind = "not called"
  /\ \E pandas \in PandasBuilds :
       FinishLoad(load_liftingcast_meet(meetReference, timeoutArg, response, pandas))
  /\ UNCHANGED <<meetReference, timeoutArg, response>>
  /\ UNCHANGED <<normVars, scoreVars, refVars, appVars>>

LoadNext == LoadMeet

MeetDoc(id, units) == [id |-> id, units |-> units]
(* a document with none of the keys the adapter reads: divisions says
   whether the key divisions is there and listed is doc.get("divisions") or
   [], an attemptNumber of 0 is one that reads neither "1", "2" nor "3" *)
BlankDoc ==
  [_id |-> DocId(""), id |-> 0, hasLifterId |-> FALSE, lifterId |-> 0, liftName |-> "",
   attemptNumber |-> 0, weight |-> None, result |-> NoneText,
   gender |-> Absent, bodyWeight |-> None, divisions |-> FALSE, listed |-> <<>>]
LifterDoc(id, gender, bodyWeight, divisions) ==
  [BlankDoc EXCEPT !._id = DocId("l"), !.id = id, !.gender = gender,
                   !.bodyWeight = bodyWeight, !.divisions = divisions]
AttemptDoc(lifterId, liftName, attemptNumber, weight, result) ==
  [BlankDoc EXCEPT !._id = DocId("a"), !.hasLifterId = TRUE, !.lifterId = lifterId,
                   !.liftName = liftName, !.attemptNumber = attemptNumber,
                   !.weight = weight, !.result = result]
DivisionDoc(id, name, weightClasses) ==
  [_id |-> DocId("d"), id |-> id, hasWeightClasses |-> TRUE, name |-> name,
   weightClasses |-> weightClasses]
Division(divisionId, declaredAwardsWeightClassId, rawOrEquipped) ==
  [divisionId |-> divisionId, declaredAwardsWeightClassId |-> declaredAwardsWeightClassId,
   rawOrEquipped |-> rawOrEquipped]
DividedDocs(meet, divisions, lifters, attempts) ==
  [meet |-> meet, divisions |-> divisions, lifters |-> lifters, attempts |-> attempts]
Docs(meet, lifters, attempts) == DividedDocs(meet, <<>>, lifters, attempts)

Answer(transport, status, body, docs, list) ==
  [transport |-> transport, status |-> status, body |-> body, docs |-> docs, list |-> list]
OkAnswer(list) == Answer("ok", 200, "object", "list", list)

Reference(text, url, parts) == [text |-> text, url |-> url, parts |-> parts]
PlainReference == Reference("value", FALSE, <<"m1">>)

ReferenceInputs ==
  {PlainReference,
   Reference("empty", FALSE, <<>>),
   Reference("blank", FALSE, <<>>),
   Reference("value", TRUE, <<"meets", "m1", "results">>),
   Reference("value", TRUE, <<"meets">>),
   Reference("value", TRUE, <<"about">>)}

TimeoutInputs == {5, 15}

Male == Str(<<"m", "a", "l", "e">>)
Female == Str(<<"F", "e", "m", "a", "l", "e">>)
Good == Str(GOOD)
Bad == Str(<<"b", "a", "d">>)

(* answers that carry no docs list, and answers whose docs list holds no
   lifter, one lifter, a lifter without gender, or a meet with null units *)
AnswerInputs ==
  LET lifter(gender) == LifterDoc(1, gender, Num(82500), TRUE)
      squat == AttemptDoc(1, "squat", 1, Num(200000), Good)
      none == Docs(MeetDoc("m1", Str(KG)), <<>>, <<>>)
  IN  {Answer("error", 0, "", "", none),
       Answer("ok", 404, "text", "", none),
       Answer("ok", 500, "text", "", none),
       Answer("ok", 403, "object", "missing", none),
       Answer("ok", 200, "text", "", none),
       Answer("ok", 200, "array", "", none),
       Answer("ok", 200, "object", "missing", none),
       Answer("ok", 200, "object", "null", none),
       Answer("ok", 200, "object", "object", none),
       OkAnswer(none),
       OkAnswer(Docs(MeetDoc("m1", Str(KG)), <<>>, <<squat>>)),
       OkAnswer(Docs(MeetDoc("m1", Str(KG)),
                     <<LifterDoc(1, Male, Num(82500), FALSE)>>, <<squat>>)),
       OkAnswer(Docs(MeetDoc("m1", Str(KG)), <<lifter(Male)>>, <<squat>>)),
       OkAnswer(Docs(MeetDoc("m1", Absent), <<lifter(Female)>>, <<>>)),
       OkAnswer(Docs(MeetDoc("m1", Str(KG)), <<lifter(Absent)>>, <<squat>>)),
       OkAnswer(Docs(MeetDoc("m1", NoneText), <<lifter(Male)>>, <<>>)),
       OkAnswer(Docs(MeetDoc("m1", NoneText),
                     <<LifterDoc(1, Male, Unparsable, TRUE)>>, <<squat>>)),
       OkAnswer(Docs(MeetDoc("m1", NoneText),
                     <<LifterDoc(1, Male, None, TRUE)>>, <<>>))}

LoadInit ==
  /\ AppIdle
  /\ NormIdle
  /\ ScoreIdle
  /\ RefIdle
  /\ meetReference \in ReferenceInputs
  /\ timeoutArg \in TimeoutInputs
  /\ response \in AnswerInputs
  /\ requests = <<>>
  /\ loaded = NotCalled

LoadSpec == LoadInit /\ [][LoadNext]_vars

(* one lifter of a meet in kilograms or pounds, with up to MaxAttemptDocs
   attempt documents *)
UnitInputs ==
  {MeetDoc("m1", Absent), MeetDoc("m1", Str(KG)), MeetDoc("m1", Str(LBS)),
   MeetDoc("m1", Str(<<"l", "b", "s">>)), MeetDoc("m1", NoneText),
   MeetDoc("m2", Str(LBS))}

AttemptDocInputs ==
  {AttemptDoc(1, "squat", 1, Num(100000), Good),
   AttemptDoc(1, "squat", 2, Num(220000), Good),
   AttemptDoc(1, "squat", 3, Num(250000), Bad),
   AttemptDoc(1, "squat", 3, Num(260000), NoneText),
   AttemptDoc(1, "squat", 2, Num(240000), Str(<<"G", "o", "o", "d">>)),
   AttemptDoc(1, "squat", 1, Unparsable, Good),
   AttemptDoc(1, "bench", 1, Num(132500), Good),
   AttemptDoc(1, "dead", 4, Num(300000), Good)}

AttemptLists == UNION {[1..n -> AttemptDocInputs] : n \in 0..MaxAttemptDocs}

AttemptInit ==
  /\ AppIdle
  /\ NormIdle
  /\ ScoreIdle
  /\ RefIdle
  /\ meetReference = PlainReference
  /\ timeoutArg = 15
  /\ \E meet \in UnitInputs, attempts \in AttemptLists :
       response = OkAnswer(Docs(meet, <<LifterDoc(1, Male, Num(181000), TRUE)>>, attempts))
  /\ requests = <<>>
  /\ loaded = NotCalled

AttemptSpec == AttemptInit /\ [][LoadNext]_vars

(* up to MaxLifters lifters of a meet in kilograms who differ in gender,
   bodyweight and total *)
LifterInputs ==
  {[gender |-> g, bodyWeight |-> bw, squat |-> s] :
     g \in {Absent, Male, Female},
     bw \in {None, Num(60000), Num(90000)},
     s \in {Num(280000), Num(300000)}}

PlaceInit ==
  /\ AppIdle
  /\ NormIdle
  /\ ScoreIdle
  /\ RefIdle
  /\ meetReference = PlainReference
  /\ timeoutArg = 15
  /\ \E n \in 1..MaxLifters : \E lifters \in [1..n -> LifterInputs] :
       response = OkAnswer(Docs(MeetDoc("m1", Str(KG)),
                     [i \in 1..n |-> LifterDoc(i, lifters[i].gender, lifters[i].bodyWeight, TRUE)],
                     [i \in 1..n |-> AttemptDoc(i, "squat", 1, lifters[i].squat, Good)]))
  /\ requests = <<>>
  /\ loaded = NotCalled

PlaceSpec == PlaceInit /\ [][LoadNext]_vars

----------------------------------------------------------------------------
(* Claims about the adapter *)

Returned == loaded.kind = "return"

LoadedRows == IF Returned THEN {loaded.rows[i] : i \in 1..Len(loaded.rows)} ELSE {}

BestOf(row, lift) ==
  CASE lift = "squat" -> row.BestSquat
    [] lift = "bench" -> row.BestBench
    [] lift = "dead" -> row.BestDeadlift

(* the weights of the attempts of a row for a movement that are there and
   whose result is the string good *)
GoodWeights(row, lift) ==
  {row.Weight[lift][n].v : n \in {m \in AttemptNumbers :
                                    /\ row.HRef[lift][m] = Str(GOOD)
                                    /\ row.Weight[lift][m].k = "num"}}

Heaviest(weights) ==
  IF weights = {} THEN 0 ELSE CHOOSE w \in weights : \A x \in weights : x <= w

(* C11: in a returned table each best lift of a row is the maximum weight
   among the row's attempts 1-3 of that movement whose result is exactly
   "good" and whose weight is there, 0.0 if there is none, and Total is the
   sum of the three best lifts. *)
C11_BestLiftsAndTotal ==
  \A row \in LoadedRows :
    /\ \A lift \in LiftNames : BestOf(row, lift) = Num(Heaviest(GoodWeights(row, lift)))
    /\ row.Total = Num(row.BestSquat.v + row.BestBench.v + row.BestDeadlift.v)

(* a table has come back with a row whose best squat is a good 100 kg
   although a failed 250 kg attempt is heavier, whose deadlift has no
   attempt, and whose total adds the bench to the squat *)
C11_Witness ==
  \E row \in LoadedRows :
    /\ row.BestSquat = Num(100000)
    /\ row.Weight["squat"][3] = Num(250000)
    /\ row.HRef["squat"][3] = Str(<<"b", "a", "d">>)
    /\ row.BestBench = Num(132500)
    /\ row.BestDeadlift = Num(0)
    /\ row.Total = Num(232500)

(* the units field of the meet's own document, Absent when the answer has
   no such document or the document has no such field *)
SourceUnits ==
  IF response.list.meet.id = _parse_meet_id(meetReference).meet_id
  THEN response.list.meet.units ELSE Absent

DenotesPounds(units) == units.k = "str" /\ Upper(units.s) = LBS
DenotesKilograms(units) == units = Absent \/ (units.k = "str" /\ Upper(units.s) = KG)

SourceLifter(id) ==
  CHOOSE doc \in {response.list.lifters[i] : i \in 1..Len(response.list.lifters)} : doc.id = id

(* the weight field of the last document taken for an attempt of a lifter,
   None when there is no such document *)
SourceWeight(id, lift, n) ==
  LET docs == response.list.attempts
      taken == {i \in 1..Len(docs) : /\ docs[i].lifterId = id
                                     /\ docs[i].liftName = lift
                                     /\ docs[i].attemptNumber = n}
  IN  IF taken = {} THEN None
      ELSE docs[CHOOSE i \in taken : \A j \in taken : j <= i].weight

(* the kilograms the claim promises for a source value *)
Kilograms(value, units) ==
  IF value.k \in {"none", "str"} THEN None
  ELSE IF DenotesPounds(units) THEN Num(PoundsToKg(value.v))
  ELSE value

(* C12: in a returned table every attempt weight and bodyweight is the
   source value times 0.45359237 rounded to 3 decimals when the meet's units
   denote pounds (220 lb is stored as 99.790), the source value unchanged
   when they denote kilograms or are absent, and missing when the source
   value is no number; and no call fails over a meet whose units denote
   pounds or kilograms or are absent, whatever its weight values. *)
C12_StoredWeightsInKilograms ==
  /\ \A row \in LoadedRows :
       /\ row.BodyWeight = ToNumeric(Kilograms(SourceLifter(row.LifterID).bodyWeight, SourceUnits))
       /\ \A lift \in LiftNames : \A n \in AttemptNumbers :
            /\ row.Weight[lift][n] = Kilograms(SourceWeight(row.LifterID, lift, n), SourceUnits)
            /\ (DenotesPounds(SourceUnits) /\ SourceWeight(row.LifterID, lift, n) = Num(220000))
                 => row.Weight[lift][n] = Num(99790)
            /\ (DenotesKilograms(SourceUnits) /\ SourceWeight(row.LifterID, lift, n) = Num(220000))
                 => row.Weight[lift][n] = Num(220000)
  /\ (loaded.kind = "raise" /\ loaded.type # "LiftingCastError")
       => ~(DenotesPounds(SourceUnits) \/ DenotesKilograms(SourceUnits))

(* a table has come back for a meet in pounds (units "lbs") with a 220 lb
   squat stored as 99.790 kg, a 181 lb bodyweight stored as 82.100 kg and an
   unparsable first squat stored as missing *)
C12_Witness ==
  /\ Returned
  /\ SourceUnits = Str(<<"l", "b", "s">>)
  /\ \E row \in LoadedRows :
       /\ SourceWeight(row.LifterID, "squat", 2) = Num(220000)
       /\ row.Weight["squat"][2] = Num(99790)
       /\ SourceLifter(row.LifterID).bodyWeight = Num(181000)
       /\ row.BodyWeight = Num(82100)
       /\ SourceWeight(row.LifterID, "squat", 1) = Unparsable
       /\ row.Weight["squat"][1] = None

(* row a may stand directly above row b: gender ascending with the rows
   without gender last, then Total descending, then bodyweight ascending
   with a missing bodyweight last *)
InOrder(a, b) ==
  IF a.Gender # b.Gender THEN GenderLess(a.Gender, b.Gender)
  ELSE /\ a.Total.v >= b.Total.v
       /\ a.Total = b.Total => ~NumLess(b.BodyWeight, a.BodyWeight)

(* the 1-based position of row i among the rows of its gender *)
PositionInGroup(rows, i) ==
  Cardinality({j \in 1..i : rows[j].Gender = rows[i].Gender})

GroupOf(rows, gender) == {i \in 1..Len(rows) : rows[i].Gender = gender}

(* C13: in a returned table the rows stand in the order gender ascending,
   Total descending, bodyweight ascending, and in every gender group, that
   of the rows without gender included, Place is the 1-based position of
   the row in its group, so that the places of a group are exactly 1..N. *)
C13_LoadedOrderAndPlaces ==
  Returned =>
    /\ \A i \in 1..Len(loaded.rows) - 1 : InOrder(loaded.rows[i], loaded.rows[i + 1])
    /\ \A i \in 1..Len(loaded.rows) :
         /\ loaded.rows[i].Place = PositionInGroup(loaded.rows, i)
         /\ {loaded.rows[j].Place : j \in GroupOf(loaded.rows, loaded.rows[i].Gender)}
              = 1..Cardinality(GroupOf(loaded.rows, loaded.rows[i].Gender))

(* a table has come back with two lifters without gender and with equal
   totals: the lighter one, second in the documents, has place 1 and the
   heavier one place 2 *)
C13_Witness ==
  /\ Returned
  /\ Len(loaded.rows) = 2
  /\ \A i \in 1..2 : loaded.rows[i].Gender = NoneText /\ loaded.rows[i].Place = i
  /\ loaded.rows[1].Total = loaded.rows[2].Total
  /\ loaded.rows[1].LifterID = 2 /\ loaded.rows[1].BodyWeight = Num(60000)
  /\ loaded.rows[2].LifterID = 1 /\ loaded.rows[2].BodyWeight = Num(90000)

Finished == loaded.kind # "not called"

(* the answers the claim lists: no answer at all, a status outside 2xx, a
   body that is no JSON object with a docs list, and a docs list from which
   no lifter row comes *)
ListedFailure ==
  \/ response.transport = "error"
  \/ response.status \notin 200..299
  \/ response.body # "object"
  \/ response.docs # "list"
  \/ SelectSeq(AllDocs(response.list), IsLifterDoc) = <<>>

(* C14: a call that fails raises LiftingCastError and no other exception
   type; it fails so on a transport failure, on HTTP 404 (the message names
   the meet id), on any other status outside 2xx, on a body that is no JSON
   object with a docs list, and on zero lifter rows; and a call that raises
   returns no table and no metadata. *)
C14_FailuresAreLiftingCastErrors ==
  /\ loaded.kind = "raise" => loaded.type = "LiftingCastError" /\ loaded.rows = <<>>
  /\ (Finished /\ _parse_meet_id(meetReference).ok /\ ListedFailure)
       => /\ loaded.kind = "raise"
          /\ loaded.type = "LiftingCastError"
          /\ (response.transport = "ok" /\ response.status = 404)
               => loaded.meet_id = _parse_meet_id(meetReference).meet_id

(* C15: a call issues at most one HTTP request, which carries the caller's
   timeout, and none before the call; a call that has ended with an error
   has issued no second request. *)
C15_OneRequestNoRetry ==
  /\ Len(requests) <= 1
  /\ \A i \in 1..Len(requests) :
       /\ requests[i].timeout = timeoutArg
       /\ requests[i].meet_id = _parse_meet_id(meetReference).meet_id
  /\ ~Finished => requests = <<>>

(* a call with timeout 5 has met HTTP 500 and ended with a LiftingCastError
   after its one request *)
C15_Witness ==
  /\ loaded.kind = "raise"
  /\ loaded.type = "LiftingCastError"
  /\ response.transport = "ok" /\ response.status = 500
  /\ requests = <<Request("m1", 5)>>

----------------------------------------------------------------------------
(* src/powertrack_app.py: percentile statistics *)

(* A lift value and the values of a distribution are counts of thousandths
   of a kilogram.  A cut point (median, top25, top10, top5, top1) and the
   mean are cells that count hundred-thousandths of a kilogram, which holds
   every interpolation between two values exactly; NaN is the statistic of
   an empty distribution. *)

(* np.searchsorted(values, key, side): the binary search of numpy, which
   on a sorted array ends at the number of values below the key
   (side="left") or not above it (side="right") *)
SearchSorted(values, key, side) ==
  LET search[low \in 0..Len(values), high \in 0..Len(values)] ==
        IF low >= high THEN low
        ELSE LET mid == low + (high - low) \div 2
                 goes_right == IF side = "left" THEN values[mid + 1] < key
                               ELSE values[mid + 1] <= key
             IN  IF goes_right THEN search[mid + 1, high] ELSE search[low, mid]
  IN  search[0, Len(values)]

(* both searches take the left insertion point *)
percentile_of_LeftOnly(self, lift_value) ==
  IF self.count = 0 THEN [percentile |-> F(0, 0), count_at_or_above |-> 0]
  ELSE [percentile |->
          FMul(FDiv(F(SearchSorted(self.distribution, lift_value, "left"), 0),
                    F(self.count, 0)),
               F(100, 0)),
        count_at_or_above |->
          Max(self.count - SearchSorted(self.distribution, lift_value, "left"), 0)]

percentile_of(self, lift_value) ==
  IF self.count = 0 THEN [percentile |-> F(0, 0), count_at_or_above |-> 0]
  ELSE [percentile |->
          FMul(FDiv(F(SearchSorted(self.distribution, lift_value, "right"), 0),
                    F(self.count, 0)),
               F(100, 0)),
        count_at_or_above |->
          Max(self.count - SearchSorted(self.distribution, lift_value, "left"), 0)]

(* `threshold and not pd.isna(threshold) and lift_value >= threshold` *)
MeetsCut(lift_value, threshold) ==
  threshold.k = "num" /\ threshold.v # 0 /\ 100 * lift_value >= threshold.v

Band(label, rank, threshold) == [label |-> label, rank |-> rank, threshold |-> threshold]

(* the walk starts at the loosest cut point *)
_select_reference_band_LoosestFirst(stats, lift_value) ==
  IF MeetsCut(lift_value, stats.top25) THEN Band("National calibre (top 25%)", 25, stats.top25)
  ELSE IF MeetsCut(lift_value, stats.top10) THEN Band("International (top 10%)", 10, stats.top10)
  ELSE IF MeetsCut(lift_value, stats.top5) THEN Band("Elite (top 5%)", 5, stats.top5)
  ELSE IF MeetsCut(lift_value, stats.top1) THEN Band("World-class (top 1%)", 1, stats.top1)
  ELSE IF stats.median.k = "num" /\ 100 * lift_value >= stats.median.v
       THEN Band("Above average", 50, stats.median)
  ELSE Band("Developing", 90, stats.median)

_select_reference_band(stats, lift_value) ==
  IF MeetsCut(lift_value, stats.top1) THEN Band("World-class (top 1%)", 1, stats.top1)
  ELSE IF MeetsCut(lift_value, stats.top5) THEN Band("Elite (top 5%)", 5, stats.top5)
  ELSE IF MeetsCut(lift_value, stats.top10) THEN Band("International (top 10%)", 10, stats.top10)
  ELSE IF MeetsCut(lift_value, stats.top25) THEN Band("National calibre (top 25%)", 25, stats.top25)
  ELSE IF stats.median.k = "num" /\ 100 * lift_value >= stats.median.v
       THEN Band("Above average", 50, stats.median)
  ELSE Band("Developing", 90, stats.median)

(* the percentile counted from the largest value down, not interpolated *)
NpPercentile_FromTop(sorted_values, q) ==
  IF sorted_values = <<>> THEN NaN
  ELSE Num(100 * sorted_values[Len(sorted_values) - (q * (Len(sorted_values) - 1)) \div 100])

(* np.percentile(sorted_values, q) with linear interpolation; np.median is
   the same at q = 50 *)
NpPercentile(sorted_values, q) ==
  IF sorted_values = <<>> THEN NaN
  ELSE LET position == q * (Len(sorted_values) - 1)
           below == position \div 100 + 1
           above == Min(below + 1, Len(sorted_values))
       IN  Num(100 * sorted_values[below]
                 + (position % 100) * (sorted_values[above] - sorted_values[below]))

(* np.mean(sorted_values), cut to hundred-thousandths *)
NpMean(sorted_values) ==
  LET sum[n \in 0..Len(sorted_values)] ==
        IF n = 0 THEN 0 ELSE sum[n - 1] + sorted_values[n]
  IN  IF sorted_values = <<>> THEN NaN
      ELSE Num((100 * sum[Len(sorted_values)]) \div Len(sorted_values))

(* LiftPercentileStats(count=..., mean=..., ..., distribution=sorted_values) *)
LiftPercentileStats(sorted_values) ==
  [count |-> Len(sorted_values),
   mean |-> NpMean(sorted_values),
   median |-> NpPercentile(sorted_values, 50),
   top25 |-> NpPercentile(sorted_values, 75),
   top10 |-> NpPercentile(sorted_values, 90),
   top5 |-> NpPercentile(sorted_values, 95),
   top1 |-> NpPercentile(sorted_values, 99),
   distribution |-> sorted_values]

----------------------------------------------------------------------------
(* percentile_of and _select_reference_band applied to the statistics of a
   sorted distribution of up to MaxSample lifts *)

MaxSample == 5

SampleValues == {100000, 110000, 120000, 130000, 140000}

SortedSamples ==
  UNION {{d \in [1..n -> SampleValues] : \A i \in 1..n - 1 : d[i] <= d[i + 1]} :
           n \in 0..MaxSample}

LiftInputs == SampleValues \cup {90000, 125000, 139600, 150000}

PercentileInit ==
  /\ AppIdle
  /\ NormIdle
  /\ ScoreIdle
  /\ LoadIdle
  /\ ReferenceIdle
  /\ ClassIdle
  /\ \E d \in SortedSamples : refStats = LiftPercentileStats(d)
  /\ liftValue \in LiftInputs
  /\ rankOf = NotAsked
  /\ bandOf = NotAsked

PercentileOf ==
  /\ rankOf = NotAsked
  /\ rankOf' = percentile_of(refStats, liftValue)
  /\ UNCHANGED <<refStats, liftValue, bandOf>>
  /\ UNCHANGED <<normVars, scoreVars, loadVars, referenceVars, classVars, appVars>>

SelectBand ==
  /\ bandOf = NotAsked
  /\ bandOf' = _select_reference_band(refStats, liftValue)
  /\ UNCHANGED <<refStats, liftValue, rankOf>>
  /\ UNCHANGED <<normVars, scoreVars, loadVars, referenceVars, classVars, appVars>>

PercentileNext ==
  \/ PercentileOf
  \/ SelectBand

PercentileSpec == PercentileInit /\ [][PercentileNext]_vars

----------------------------------------------------------------------------
(* Claims about the percentile statistics *)

AtOrBelow == {i \in 1..refStats.count : refStats.distribution[i] <= liftValue}
AtOrAbove == {i \in 1..refStats.count : refStats.distribution[i] >= liftValue}

(* x = 100 * k / n to within the float's last digits *)
IsPercentage(x, k, n) ==
  /\ FLe(FSub(FMul(x, F(n, 0)), F(100 * k, 0)), F(1, 5))
  /\ FLe(FSub(F(100 * k, 0), FMul(x, F(n, 0))), F(1, 5))

(* C16: over a sorted distribution of n > 0 values percentile_of(v) returns
   the percentile 100 * (number of values <= v) / n, which lies in
   [0, 100], and the number of values >= v as the peer count, also when v
   occurs several times; for [100, 110, 120, 130, 140] and v = 120 it
   returns 60 and 3; for n = 0 it returns (0.0, 0). *)
C16_PercentileOf ==
  rankOf # NotAsked =>
    IF refStats.count = 0
    THEN rankOf = [percentile |-> F(0, 0), count_at_or_above |-> 0]
    ELSE /\ IsPercentage(rankOf.percentile, Cardinality(AtOrBelow), refStats.count)
         /\ FLe(F(0, 0), rankOf.percentile)
         /\ FLe(rankOf.percentile, F(100, 0))
         /\ rankOf.count_at_or_above = Cardinality(AtOrAbove)
         /\ (/\ refStats.distribution = <<100000, 110000, 120000, 130000, 140000>>
             /\ liftValue = 120000)
              => /\ FIsZero(FSub(rankOf.percentile, F(60, 0)))
                 /\ rankOf.count_at_or_above = 3

(* percentile_of has answered for a value that occurs three times in the
   distribution: 4 of 5 values are at or below it and 4 at or above *)
C16_Witness ==
  /\ rankOf # NotAsked
  /\ refStats.distribution = <<100000, 120000, 120000, 120000, 140000>>
  /\ liftValue = 120000
  /\ FIsZero(FSub(rankOf.percentile, F(80, 0)))
  /\ rankOf.count_at_or_above = 4

CutPoints == <<refStats.top1, refStats.top5, refStats.top10, refStats.top25>>
BandRanks == <<1, 5, 10, 25>>
BandLabels ==
  <<"World-class (top 1%)", "Elite (top 5%)", "International (top 10%)",
    "National calibre (top 25%)">>

(* the cut points the lift value meets or exceeds *)
CutsMet == {i \in 1..4 : CutPoints[i].k = "num" /\ 100 * liftValue >= CutPoints[i].v}

(* C17: _select_reference_band returns the first band, walking top 1%,
   top 5%, top 10%, top 25%, whose cut point the value meets or exceeds;
   when it meets none it returns Above average if value >= median and
   Developing otherwise. *)
C17_FirstBandMet ==
  bandOf # NotAsked =>
    IF CutsMet # {}
    THEN LET first == CHOOSE i \in CutsMet : \A j \in CutsMet : i <= j
         IN  bandOf = Band(BandLabels[first], BandRanks[first], CutPoints[first])
    ELSE IF refStats.median.k = "num" /\ 100 * liftValue >= refStats.median.v
         THEN bandOf.label = "Above average" /\ bandOf.rank = 50
    ELSE bandOf.label = "Developing" /\ bandOf.rank = 90

(* a value equal to the top 1% cut point 139.6 of [100, 110, 120, 130, 140],
   which meets all four cut points, has been put in the top 1% band *)
C17_Witness ==
  /\ bandOf # NotAsked
  /\ refStats.distribution = <<100000, 110000, 120000, 130000, 140000>>
  /\ liftValue = 139600
  /\ refStats.top1 = Num(13960000)
  /\ CutsMet = 1..4
  /\ bandOf.rank = 1

----------------------------------------------------------------------------
(* src/powertrack_app.py: weight classes *)

(* the declared class text is not looked at *)
_infer_weight_class_value(bodyweight, weight_class_text) ==
  IF bodyweight.k = "num" THEN bodyweight ELSE None

(* the bounds taken as exclusive *)
get_weight_class_category_ExclusiveBounds(weight_kg, gender) ==
  IF weight_kg.k # "num" THEN "Unknown"
  ELSE IF Upper(IF FalsyText(gender) THEN <<>> ELSE gender.s) = MALE
       THEN IF weight_kg.v < 59000 THEN "59"
            ELSE IF weight_kg.v < 66000 THEN "66"
            ELSE IF weight_kg.v < 74000 THEN "74"
            ELSE IF weight_kg.v < 83000 THEN "83"
            ELSE IF weight_kg.v < 93000 THEN "93"
            ELSE IF weight_kg.v < 105000 THEN "105"
            ELSE IF weight_kg.v < 120000 THEN "120"
            ELSE "120+"
  ELSE IF weight_kg.v < 47000 THEN "47"
       ELSE IF weight_kg.v < 52000 THEN "52"
       ELSE IF weight_kg.v < 57000 THEN "57"
       ELSE IF weight_kg.v < 63000 THEN "63"
       ELSE IF weight_kg.v < 69000 THEN "69"
       ELSE IF weight_kg.v < 76000 THEN "76"
       ELSE IF weight_kg.v < 84000 THEN "84"
       ELSE "84+"

(* weight_kg is None or NaN, or a count of thousandths of a kilogram *)
get_weight_class_category(weight_kg, gender) ==
  IF weight_kg.k # "num" THEN "Unknown"
  ELSE IF Upper(IF FalsyText(gender) THEN <<>> ELSE gender.s) = MALE
       THEN IF weight_kg.v <= 59000 THEN "59"
            ELSE IF weight_kg.v <= 66000 THEN "66"
            ELSE IF weight_kg.v <= 74000 THEN "74"
            ELSE IF weight_kg.v <= 83000 THEN "83"
            ELSE IF weight_kg.v <= 93000 THEN "93"
            ELSE IF weight_kg.v <= 105000 THEN "105"
            ELSE IF weight_kg.v <= 120000 THEN "120"
            ELSE "120+"
  ELSE IF weight_kg.v <= 47000 THEN "47"
       ELSE IF weight_kg.v <= 52000 THEN "52"
       ELSE IF weight_kg.v <= 57000 THEN "57"
       ELSE IF weight_kg.v <= 63000 THEN "63"
       ELSE IF weight_kg.v <= 69000 THEN "69"
       ELSE IF weight_kg.v <= 76000 THEN "76"
       ELSE IF weight_kg.v <= 84000 THEN "84"
       ELSE "84+"

----------------------------------------------------------------------------
(* The weight class of a lifter, asked for a bodyweight and then for a
   bodyweight that is not lighter, under any declared class *)

MaxStep == 2

BoundInputs == {47, 52, 57, 59, 63, 66, 69, 74, 76, 83, 84, 93, 105, 120}

BodyWeightKgInputs ==
  {None, NaN, Num(40000), Num(130000)}
    \cup {Num(1000 * b + d) : b \in BoundInputs, d \in {0, 1}}

ClassGenderInputs ==
  {Str(MALE), Str(<<"m", "a", "l", "e">>), Str(FEMALE), Str(<<"M", "X">>), NoneText}

ClassTextInputs == {NoneText, Str(<<"8", "3">>), Str(<<"1", "2", "0", "+">>)}

ClassInit ==
  /\ AppIdle
  /\ NormIdle
  /\ ScoreIdle
  /\ LoadIdle
  /\ RankIdle
  /\ ReferenceIdle
  /\ classArg \in [weight : BodyWeightKgInputs, gender : ClassGenderInputs,
                   text : ClassTextInputs]
  /\ category = ""
  /\ lighter = NotAsked

Classify ==
  /\ category = ""
  /\ category' = get_weight_class_category(
                   _infer_weight_class_value(classArg.weight, classArg.text),
                   classArg.gender)
  /\ UNCHANGED <<classArg, lighter>>
  /\ UNCHANGED <<normVars, scoreVars, loadVars, rankVars, referenceVars, appVars>>

(* the same lifter weighs in again, up to MaxStep kilograms heavier, and
   declares a class *)
Reweigh ==
  /\ category # ""
  /\ lighter = NotAsked
  /\ classArg.weight.k = "num"
  /\ \E weight \in BodyWeightKgInputs, text \in ClassTextInputs :
       /\ weight.k = "num"
       /\ weight.v >= classArg.weight.v
       /\ weight.v <= classArg.weight.v + 1000 * MaxStep
       /\ classArg' = [classArg EXCEPT !.weight = weight, !.text = text]
  /\ lighter' = [weight |-> classArg.weight, category |-> category]
  /\ category' = ""
  /\ UNCHANGED <<normVars, scoreVars, loadVars, rankVars, referenceVars, appVars>>

ClassNext ==
  \/ Classify
  \/ Reweigh

ClassSpec == ClassInit /\ [][ClassNext]_vars

----------------------------------------------------------------------------
(* Claims about the weight classes *)

MaleBuckets == <<"59", "66", "74", "83", "93", "105", "120", "120+">>
MaleBounds == <<59, 66, 74, 83, 93, 105, 120>>
FemaleBuckets == <<"47", "52", "57", "63", "69", "76", "84", "84+">>
FemaleBounds == <<47, 52, 57, 63, 69, 76, 84>>

(* the bucket of the first bound that a bodyweight does not exceed, the
   plus bucket when it exceeds them all *)
BucketByBound(weight, bounds, buckets) ==
  LET within == {i \in 1..Len(bounds) : weight <= 1000 * bounds[i]}
  IN  IF within = {} THEN buckets[Len(buckets)]
      ELSE buckets[CHOOSE i \in within : \A j \in within : i <= j]

BucketsOf(gender) ==
  IF gender.k = "str" /\ Upper(gender.s) = MALE THEN MaleBuckets ELSE FemaleBuckets

BucketIndex(bucket, buckets) == CHOOSE i \in 1..Len(buckets) : buckets[i] = bucket

(* C20: a known bodyweight gets exactly the bucket of the first inclusive
   upper bound it does not exceed, of the male bounds for a male and of the
   female bounds for a female lifter, and the plus bucket above the last
   bound; a heavier bodyweight never gets a lower bucket; the declared class
   text changes nothing; a missing bodyweight gets Unknown. *)
C20_WeightClassBuckets ==
  category # "" =>
    IF classArg.weight.k # "num" THEN category = "Unknown"
    ELSE /\ classArg.gender.k = "str" /\ Upper(classArg.gender.s) = MALE
              => category = BucketByBound(classArg.weight.v, MaleBounds, MaleBuckets)
         /\ classArg.gender.k = "str" /\ Upper(classArg.gender.s) = FEMALE
              => category = BucketByBound(classArg.weight.v, FemaleBounds, FemaleBuckets)
         /\ \E i \in 1..8 : category = BucketsOf(classArg.gender)[i]
         /\ lighter # NotAsked
              => BucketIndex(lighter.category, BucketsOf(classArg.gender))
                   <= BucketIndex(category, BucketsOf(classArg.gender))

(* a male lifter of 83.000 kg was put in 83 and, weighing 83.001 kg and
   declaring the 83 class, is put in 93 *)
C20_Witness ==
  /\ lighter # NotAsked
  /\ lighter.weight = Num(83000) /\ lighter.category = "83"
  /\ classArg.weight = Num(83001)
  /\ classArg.gender = Str(<<"m", "a", "l", "e">>)
  /\ classArg.text = Str(<<"8", "3">>)
  /\ category = "93"

----------------------------------------------------------------------------
(* src/powertrack_app.py: the OpenIPF reference statistics *)

OPENIPF_MIN_SAMPLE_SIZE == 40

RAW == <<"R", "A", "W">>
EQUIPPED == <<"E", "Q", "U", "I", "P", "P", "E", "D">>
SQUAT == <<"S", "q", "u", "a", "t">>
BENCH == <<"B", "e", "n", "c", "h">>
DEADLIFT == <<"D", "e", "a", "d", "l", "i", "f", "t">>
TOTAL == <<"T", "o", "t", "a", "l">>

(* the keys of lift_columns *)
lift_columns == {SQUAT, BENCH, DEADLIFT, TOTAL}

(* np.sort(values): position p holds the value that has p - 1 values ahead
   of it, equal values in their old order *)
Arranged(values, ahead) ==
  [p \in 1..Len(values) |-> values[CHOOSE i \in 1..Len(values) : ahead[i] = p - 1]]

NpSort(values) ==
  Arranged(values,
           [i \in 1..Len(values) |->
              Cardinality({j \in 1..Len(values) :
                             \/ values[j] < values[i]
                             \/ values[j] = values[i] /\ j < i})])

(* a group of any size is kept *)
EnoughSamples_Any(count) == count >= 0

(* `if count < OPENIPF_MIN_SAMPLE_SIZE: continue` *)
EnoughSamples(count) == ~(count < OPENIPF_MIN_SAMPLE_SIZE)

(* the rows load_openipf_reference_data keeps, each with its EquipType *)
KeptRows(rows) ==
  LET kept(row) == row.Event = "SBD" /\ row.Sex \in {"M", "F"}
      typed(row) == [row EXCEPT !.Equipment =
                       IF row.Equipment.k = "str" /\ Lower(row.Equipment.s) = <<"r", "a", "w">>
                       THEN Str(RAW) ELSE Str(EQUIPPED)]
      all == SelectSeq(rows, kept)
  IN  [i \in 1..Len(all) |-> typed(all[i])]

(* the rows of _build_openipf_reference with a date and a weight class, as
   (Gender, WeightClassCategory, EquipType, lifts) *)
ClassifiedRows(rows) ==
  LET gender(row) == IF row.Sex = "M" THEN MALE ELSE FEMALE
      class(row) == get_weight_class_category(
                      _infer_weight_class_value(row.BodyweightKg, row.WeightClassKg),
                      Str(gender(row)))
      classified(row) == row.Dated /\ class(row) # "Unknown"
      all == SelectSeq(rows, classified)
  IN  [i \in 1..Len(all) |->
         [Gender |-> gender(all[i]), WeightClassCategory |-> class(all[i]),
          EquipType |-> all[i].Equipment.s, lifts |-> all[i].lifts]]

(* the values of a lift in a group, in row order, missing values dropped *)
GroupValues(rows, key) ==
  LET member(row) == /\ row.Gender = key[1]
                     /\ row.WeightClassCategory = key[2]
                     /\ row.EquipType = key[3]
                     /\ row.lifts[key[4]].k = "num"
      members == SelectSeq(rows, member)
  IN  [i \in 1..Len(members) |-> members[i].lifts[key[4]].v]

(* stats_map: the (gender, weight class, equipment, lift) keys that get an
   entry, and their entries *)
StatsMap(rows) ==
  LET keys == {<<rows[i].Gender, rows[i].WeightClassCategory, rows[i].EquipType, lift>> :
                 i \in 1..Len(rows), lift \in lift_columns}
      stored == {key \in keys : /\ GroupValues(rows, key) # <<>>
                                /\ EnoughSamples(Len(GroupValues(rows, key)))}
  IN  [key \in stored |-> LiftPercentileStats(NpSort(GroupValues(rows, key)))]

NoReference == [kind |-> "None", stats |-> <<>>, filtered_row_count |-> 0]

BuiltReference(rows, stats) ==
  IF DOMAIN stats = {} THEN NoReference
  ELSE [kind |-> "OpenIPFReferenceData", stats |-> stats, filtered_row_count |-> Len(rows)]

BuildClassified(rows) ==
  IF rows = <<>> THEN NoReference ELSE BuiltReference(rows, ByValue(StatsMap, rows))

_build_openipf_reference(frame) == BuildClassified(ClassifiedRows(frame))

BuildKept(frame) ==
  IF frame = <<>> THEN NoReference ELSE _build_openipf_reference(frame)

load_openipf_reference_data(file) ==
  IF ~file.exists THEN NoReference ELSE BuildKept(KeptRows(file.rows))

(* self.stats.get(gender_key, {}).get(class_key, {}).get(lift_key): the third
   level of the stored dict is keyed by equipment type, and what the third
   get finds there is the dict of the lifts of that equipment type *)
get_stats(self, gender, weight_class, lift_name) ==
  LET gender_key == Upper(IF FalsyText(gender) THEN <<>> ELSE gender.s)
      lift_key == Title(lift_name)
      found == {key \in DOMAIN self.stats :
                  key[1] = gender_key /\ key[2] = weight_class /\ key[3] = lift_key}
  IN  IF found = {} THEN [kind |-> "None", lifts |-> {}]
      ELSE [kind |-> "dict", lifts |-> {key[4] : key \in found}]

(* NotAsked stands for the None that sends evaluate_percentile to the static
   table; a dict in the place of a LiftPercentileStats has no percentile_of *)
_evaluate_with_openipf_reference(data, gender, weight_class, lift_name, lift_value) ==
  IF data.kind = "None" THEN NotAsked
  ELSE IF get_stats(data, gender, weight_class, lift_name).kind = "None" THEN NotAsked
  ELSE [kind |-> "AttributeError", source |-> "", percentile |-> FNaN,
        count_at_or_above |-> 0, band |-> NotAsked]

(* The static table and the IPF world records, for the two weight classes
   the reference file of the model holds: kilograms in the table, thousandths
   of a kilogram in the record books. *)
TableEntry(median, top25, elite10) == [median |-> median, top25 |-> top25, elite10 |-> elite10]

FALLBACK_OPENIPF_PERCENTILES ==
  (<<FEMALE, "63", SQUAT>> :> TableEntry(155, 175, 195))
    @@ (<<FEMALE, "63", BENCH>> :> TableEntry(90, 100, 110))
    @@ (<<FEMALE, "63", DEADLIFT>> :> TableEntry(180, 205, 225))
    @@ (<<FEMALE, "63", TOTAL>> :> TableEntry(420, 470, 515))
    @@ (<<MALE, "83", SQUAT>> :> TableEntry(240, 265, 290))
    @@ (<<MALE, "83", BENCH>> :> TableEntry(160, 175, 190))
    @@ (<<MALE, "83", DEADLIFT>> :> TableEntry(275, 305, 330))
    @@ (<<MALE, "83", TOTAL>> :> TableEntry(620, 690, 745))

IPF_WORLD_RECORDS_MEN ==
  (<<"83", Lower(SQUAT)>> :> 327500) @@ (<<"83", Lower(BENCH)>> :> 235000)
    @@ (<<"83", Lower(DEADLIFT)>> :> 370000) @@ (<<"83", Lower(TOTAL)>> :> 900000)

IPF_WORLD_RECORDS_WOMEN ==
  (<<"63", Lower(SQUAT)>> :> 220000) @@ (<<"63", Lower(BENCH)>> :> 135000)
    @@ (<<"63", Lower(DEADLIFT)>> :> 260000) @@ (<<"63", Lower(TOTAL)>> :> 590000)

(* entry.get(lift_name.lower()): 0 stands for None *)
RecordIn(record_book, weight_class, lift_name) ==
  IF <<weight_class, Lower(lift_name)>> \in DOMAIN record_book
  THEN record_book[<<weight_class, Lower(lift_name)>>] ELSE 0

get_world_record_value(weight_class, lift_name, gender) ==
  RecordIn(IF Upper(gender) = MALE THEN IPF_WORLD_RECORDS_MEN ELSE IPF_WORLD_RECORDS_WOMEN,
           weight_class, lift_name)

(* A threshold of the static path is a count of millionths of a kilogram:
   the table values are whole kilograms and the records multiples of half a
   kilogram, so every product below is a whole count. *)
Top1Threshold(top10, world_record) ==
  IF world_record # 0 THEN Max(1000000 * top10, 970 * world_record)
  ELSE 1050000 * top10

Top5Threshold(top10, world_record) ==
  IF world_record # 0
  THEN IF Max(world_record - 1000 * top10, 0) > 0
       THEN 1000000 * top10 + 400 * Max(world_record - 1000 * top10, 0)
       ELSE 1050000 * top10
  ELSE 1020000 * top10

(* the list `thresholds`, a tier being left out when its table value is
   falsy *)
Thresholds(median, top25, top10, world_record) ==
  (IF top10 # 0
   THEN <<Band("World-class (top 1%)", 1, Num(Top1Threshold(top10, world_record))),
          Band("Elite (top 5%)", 5, Num(Top5Threshold(top10, world_record))),
          Band("International (top 10%)", 10, Num(1000000 * top10))>>
   ELSE <<>>)
    \o (IF top25 # 0 THEN <<Band("National calibre (top 25%)", 25, Num(1000000 * top25))>>
        ELSE <<>>)
    \o (IF median # 0 THEN <<Band("Above average", 50, Num(1000000 * median))>> ELSE <<>>)

(* threshold_value and lift_value >= threshold_value - 1e-6, the lift being
   a count of thousandths *)
MeetsThreshold(lift_value, entry) ==
  entry.threshold.v # 0 /\ 1000 * lift_value >= entry.threshold.v - 1

TableProfile(band) ==
  [kind |-> "profile", source |-> "static table", percentile |-> FNaN,
   count_at_or_above |-> 0, band |-> band]

(* the table's three values become the only tiers *)
FirstMet_TableValuesOnly(thresholds, median, lift_value) ==
  LET met == {i \in 1..Len(thresholds) :
                thresholds[i].rank >= 10 /\ MeetsThreshold(lift_value, thresholds[i])}
  IN  IF met # {} THEN TableProfile(thresholds[CHOOSE i \in met : \A j \in met : i <= j])
      ELSE IF median # 0 THEN TableProfile(Band("Developing", 90, Num(1000000 * median)))
      ELSE TableProfile(Band("Unranked", 999, None))

(* the loop over thresholds and what follows it *)
FirstMet(thresholds, median, lift_value) ==
  LET met == {i \in 1..Len(thresholds) : MeetsThreshold(lift_value, thresholds[i])}
  IN  IF met # {} THEN TableProfile(thresholds[CHOOSE i \in met : \A j \in met : i <= j])
      ELSE IF median # 0 THEN TableProfile(Band("Developing", 90, Num(1000000 * median)))
      ELSE TableProfile(Band("Unranked", 999, None))

TableTiers(percentile_data, world_record, lift_value) ==
  FirstMet(Thresholds(percentile_data.median, percentile_data.top25, percentile_data.elite10,
                      world_record),
           percentile_data.median, lift_value)

(* gender_key = (gender or "").upper(), lift_key = lift_name.title() *)
TableKey(gender, weight_class, lift_name) ==
  <<Upper(IF FalsyText(gender) THEN <<>> ELSE gender.s), weight_class, Title(lift_name)>>

(* the profile of the static table says no percentile *)
_evaluate_from_percentile_table(gender, weight_class, lift_name, lift_value) ==
  IF TableKey(gender, weight_class, lift_name) \notin DOMAIN FALLBACK_OPENIPF_PERCENTILES
  THEN TableProfile(Band("Unranked", 999, None))
  ELSE TableTiers(FALLBACK_OPENIPF_PERCENTILES[TableKey(gender, weight_class, lift_name)],
                  get_world_record_value(weight_class, lift_name,
                                         TableKey(gender, weight_class, lift_name)[1]),
                  lift_value)

FromReferenceOrTable(answer, gender, weight_class, lift_name, lift_value) ==
  IF answer # NotAsked THEN answer
  ELSE _evaluate_from_percentile_table(gender, weight_class, lift_name, lift_value)

(* lift_value is None or NaN, or a count of thousandths of a kilogram; the
   record note, which compares the lift with the world record, is left out *)
evaluate_percentile(data, gender, weight_class, lift_name, lift_value) ==
  IF lift_value.k # "num"
  THEN [kind |-> "profile", source |-> "unranked", percentile |-> FNaN,
        count_at_or_above |-> 0, band |-> NotAsked]
  ELSE FromReferenceOrTable(
         _evaluate_with_openipf_reference(data, gender, weight_class, lift_name, lift_value.v),
         gender, weight_class, lift_name, lift_value.v)

----------------------------------------------------------------------------
(* The reference statistics are built once from the OpenIPF file and then
   asked for the percentile of a lift.  The file holds a group of raw male
   lifters of 82.5 kg and a group of equipped female lifters of 63 kg, each
   of about OPENIPF_MIN_SAMPLE_SIZE rows. *)

MaxSpread == 1

GroupSizes == (OPENIPF_MIN_SAMPLE_SIZE - MaxSpread)..(OPENIPF_MIN_SAMPLE_SIZE + MaxSpread)

OpenIPFRow(sex, event, equipment, bodyweight, squat, bench, total, dated) ==
  [Sex |-> sex, Event |-> event, Equipment |-> equipment, BodyweightKg |-> bodyweight,
   WeightClassKg |-> NoneText, Dated |-> dated,
   lifts |-> (SQUAT :> squat) @@ (BENCH :> bench) @@ (DEADLIFT :> NaN) @@ (TOTAL :> total)]

(* n rows of one group, the first `missing` of them without a bench *)
GroupRows(n, sex, equipment, bodyweight, missing) ==
  [i \in 1..n |->
     OpenIPFRow(sex, "SBD", equipment, bodyweight,
                Num(150000 + 2500 * ((7 * i) % 41)),
                IF i <= missing THEN NaN ELSE Num(100000 + 2500 * ((5 * i) % 9)),
                Num(400000 + 2500 * ((3 * i) % 13)), TRUE)]

(* rows that are dropped: a bench-only entry, an entry of another sex, an
   entry without bodyweight and an entry without date *)
DroppedRows ==
  <<OpenIPFRow("M", "B", Str(<<"R", "a", "w">>), Num(82500), NaN, Num(150000), Num(150000), TRUE),
    OpenIPFRow("Mx", "SBD", Str(<<"R", "a", "w">>), Num(82500), Num(200000), Num(150000), Num(600000), TRUE),
    OpenIPFRow("M", "SBD", Str(<<"R", "a", "w">>), NaN, Num(200000), Num(150000), Num(600000), TRUE),
    OpenIPFRow("M", "SBD", Str(<<"R", "a", "w">>), Num(82500), Num(200000), Num(150000), Num(600000), FALSE)>>

FileInputs ==
  {[exists |-> FALSE, rows |-> <<>>]}
    \cup {[exists |-> TRUE,
           rows |-> GroupRows(men, "M", Str(<<"R", "a", "w">>), Num(82500), missing)
                      \o GroupRows(women, "F", Str(<<"S", "i", "n", "g", "l", "e", "-", "p", "l", "y">>),
                                   Num(63000), 0)
                      \o dropped] :
            men \in GroupSizes, missing \in 0..MaxSpread,
            women \in {0, OPENIPF_MIN_SAMPLE_SIZE},
            dropped \in {<<>>, DroppedRows}}

LiftNameInputs ==
  {<<"s", "q", "u", "a", "t">>, BENCH, <<"D", "E", "A", "D", "L", "I", "F", "T">>, <<"r", "a", "w">>}

(* valid lifts for every gender, weight class and lift name, and one lift
   that is not a number *)
QueryInputs ==
  [gender : {Str(<<"m", "a", "l", "e">>), Str(FEMALE), NoneText},
   weight_class : {"83", "63"},
   lift_name : LiftNameInputs,
   lift_value : {Num(160000)}]
    \cup {[gender |-> Str(MALE), weight_class |-> "83", lift_name |-> SQUAT, lift_value |-> NaN]}

ReferenceInit ==
  /\ AppIdle
  /\ NormIdle
  /\ ScoreIdle
  /\ LoadIdle
  /\ RankIdle
  /\ ClassIdle
  /\ csv \in FileInputs
  /\ reference = NotAsked
  /\ query = NotAsked
  /\ profile = NotAsked

(* the first call of load_openipf_reference_data, whose result
   st.cache_resource keeps *)
LoadReference ==
  /\ reference = NotAsked
  /\ reference' = load_openipf_reference_data(csv)
  /\ UNCHANGED <<csv, query, profile>>
  /\ UNCHANGED <<normVars, scoreVars, loadVars, rankVars, classVars, appVars>>

(* evaluate_percentile, which finds the reference in the cache *)
EvaluateOver(queries) ==
  /\ reference # NotAsked
  /\ profile = NotAsked
  /\ \E q \in queries :
       /\ query' = q
       /\ profile' = evaluate_percentile(reference, q.gender, q.weight_class,
                                         q.lift_name, q.lift_value)
  /\ UNCHANGED <<csv, reference>>
  /\ UNCHANGED <<normVars, scoreVars, loadVars, rankVars, classVars, appVars>>

Evaluate == EvaluateOver(QueryInputs)

ReferenceNext ==
  \/ LoadReference
  \/ Evaluate

ReferenceSpec == ReferenceInit /\ [][ReferenceNext]_vars

----------------------------------------------------------------------------
(* Claims about the reference statistics *)

Built == reference # NotAsked /\ reference.kind = "OpenIPFReferenceData"

(* the stored groups the query speaks of: its gender, weight class and
   lift under any equipment type *)
QueriedGroups ==
  {key \in DOMAIN reference.stats :
     /\ key[1] = Upper(IF FalsyText(query.gender) THEN <<>> ELSE query.gender.s)
     /\ key[2] = query.weight_class
     /\ key[4] = Title(query.lift_name)}

(* C18: when the built statistics hold an entry for the group of the query,
   evaluate_percentile answers a valid lift from those statistics through
   percentile_of, and it answers from the static table only when there is no
   reference or no entry for the group. *)
C18_AnswersFromReference ==
  (profile # NotAsked /\ query.lift_value.k = "num")
    => /\ (Built /\ QueriedGroups # {})
            => /\ profile.source = "openipf reference"
               /\ \E key \in QueriedGroups :
                    profile.percentile
                      = percentile_of(reference.stats[key], query.lift_value.v).percentile
       /\ profile.source = "static table" => (~Built \/ QueriedGroups = {})

(* the non-missing values of a lift in a group of the file *)
FileValues(key) ==
  {i \in 1..Len(csv.rows) :
     LET row == csv.rows[i]
     IN  /\ row.Event = "SBD" /\ row.Sex \in {"M", "F"} /\ row.Dated
         /\ (IF row.Sex = "M" THEN MALE ELSE FEMALE) = key[1]
         /\ (IF row.Equipment.k = "str" /\ Lower(row.Equipment.s) = <<"r", "a", "w">>
              THEN RAW ELSE EQUIPPED) = key[3]
         /\ row.lifts[key[4]].k = "num"
         /\ get_weight_class_category(row.BodyweightKg, Str(key[1])) = key[2]}

GroupKeys == {MALE, FEMALE} \X {"83", "63"} \X {RAW, EQUIPPED} \X lift_columns

(* C19: every entry of the built statistics has a count of at least 40
   that is the number of values of its distribution, and a group with fewer
   than 40 non-missing values of a lift has no entry for that lift. *)
C19_MinimumSampleSize ==
  reference # NotAsked =>
    /\ \A key \in DOMAIN reference.stats :
         /\ reference.stats[key].count >= 40
         /\ reference.stats[key].count = Len(reference.stats[key].distribution)
         /\ reference.stats[key].count = Cardinality(FileValues(key))
    /\ \A key \in GroupKeys :
         Cardinality(FileValues(key)) < 40 => key \notin DOMAIN reference.stats

(* statistics have been built from a file with 40 raw male lifters of whom
   one has no bench: the squat has an entry of count 40 and the bench, with
   39 values, has none *)
C19_Witness ==
  /\ Built
  /\ <<MALE, "83", RAW, SQUAT>> \in DOMAIN reference.stats
  /\ reference.stats[<<MALE, "83", RAW, SQUAT>>].count = 40
  /\ Cardinality(FileValues(<<MALE, "83", RAW, BENCH>>)) = 39
  /\ <<MALE, "83", RAW, BENCH>> \notin DOMAIN reference.stats

----------------------------------------------------------------------------
(* The adapter called on a meet in kilograms or pounds with one lifter and
   up to MaxDuplicates attempt documents, several of them for the second
   squat *)

MaxDuplicates == 3

DuplicateInputs ==
  {AttemptDoc(1, "squat", 2, Num(220000), Good),
   AttemptDoc(1, "squat", 2, Num(240000), Str(<<"G", "o", "o", "d">>)),
   AttemptDoc(1, "squat", 2, Num(200000), Good),
   AttemptDoc(1, "squat", 1, Num(210000), Good),
   AttemptDoc(1, "bench", 2, Num(132500), Bad),
   AttemptDoc(2, "squat", 2, Num(300000), Good)}

DuplicateLists == UNION {[1..n -> DuplicateInputs] : n \in 0..MaxDuplicates}

DuplicateInit ==
  /\ AppIdle
  /\ NormIdle
  /\ ScoreIdle
  /\ RefIdle
  /\ meetReference = PlainReference
  /\ timeoutArg = 15
  /\ \E meet \in {MeetDoc("m1", Str(KG)), MeetDoc("m1", Str(LBS))} :
     \E attempts \in DuplicateLists :
       response = OkAnswer(Docs(meet, <<LifterDoc(1, Male, Num(181000), TRUE)>>, attempts))
  /\ requests = <<>>
  /\ loaded = NotCalled

DuplicateSpec == DuplicateInit /\ [][LoadNext]_vars

----------------------------------------------------------------------------
(* Claims about the documents of the adapter *)

SourceDocs == AllDocs(response.list)

(* the documents taken for an attempt of a lifter, by their place in the
   document list *)
TakenFor(id, lift, n) ==
  {i \in 1..Len(SourceDocs) : /\ AttemptTaken(SourceDocs[i])
                              /\ SourceDocs[i].lifterId = id
                              /\ SourceDocs[i].liftName = lift
                              /\ SourceDocs[i].attemptNumber = n}

LastOf(indices) == CHOOSE i \in indices : \A j \in indices : j <= i

(* a document that is taken and followed by a document taken for the same
   attempt *)
EarlierDuplicate(docs, i) ==
  /\ AttemptTaken(docs[i])
  /\ \E j \in (i + 1)..Len(docs) :
       /\ AttemptTaken(docs[j])
       /\ docs[j].lifterId = docs[i].lifterId
       /\ docs[j].liftName = docs[i].liftName
       /\ docs[j].attemptNumber = docs[i].attemptNumber

(* the documents without the earlier duplicates, in their order *)
WithoutEarlierDuplicates(docs) ==
  LET kept == {i \in 1..Len(docs) : ~EarlierDuplicate(docs, i)}
  IN  [p \in 1..Cardinality(kept) |->
         docs[CHOOSE i \in kept : Cardinality({j \in kept : j < i}) = p - 1]]

(* C27: when several attempt documents stand for one (lifter, lift name,
   attempt number), the attempt's stored weight and result are those of the
   document that comes last in the list, and the call ends as it ends on
   the list without the earlier duplicates: same attempt columns, same best
   lifts, same total. *)
C27_LastDuplicateWins ==
  Returned =>
    /\ \A row \in LoadedRows : \A lift \in LiftNames : \A n \in AttemptNumbers :
         TakenFor(row.LifterID, lift, n) # {} =>
           /\ row.Weight[lift][n]
                = Kilograms(SourceDocs[LastOf(TakenFor(row.LifterID, lift, n))].weight,
                            SourceUnits)
           /\ row.HRef[lift][n] = SourceDocs[LastOf(TakenFor(row.LifterID, lift, n))].result
    /\ \E pandas \in PandasBuilds :
         loaded = load_liftingcast_meet(
                    meetReference, timeoutArg,
                    [response EXCEPT !.list.attempts = WithoutEarlierDuplicates(@)],
                    pandas).result

(* a table has come back for a good second squat of 220 followed by a
   second squat of 240 whose result is not "good": the row holds the 240,
   and the 220 is no best squat *)
C27_Witness ==
  /\ Returned
  /\ DenotesKilograms(SourceUnits)
  /\ response.list.attempts = <<AttemptDoc(1, "squat", 2, Num(220000), Good),
                                AttemptDoc(1, "squat", 2, Num(240000), Str(<<"G", "o", "o", "d">>))>>
  /\ \E row \in LoadedRows :
       /\ row.Weight["squat"][2] = Num(240000)
       /\ row.HRef["squat"][2] = Str(<<"G", "o", "o", "d">>)
       /\ row.BestSquat = Num(0)
       /\ row.Total = Num(0)

----------------------------------------------------------------------------
(* The static table asked without a reference file: lifts around the
   thresholds of the male 83 kg squat and of the female 63 kg bench *)

TableLiftInputs ==
  {Num(80000), Num(90000), Num(100000), Num(110000), Num(120000), Num(130950),
   Num(230000), Num(240000), Num(265000), Num(290000), Num(305000), Num(317670),
   Num(317675), Num(330000)}

TableQueryInputs ==
  [gender : {Str(<<"m", "a", "l", "e">>), Str(FEMALE), NoneText},
   weight_class : {"83", "63"},
   lift_name : {<<"s", "q", "u", "a", "t">>, BENCH},
   lift_value : TableLiftInputs]

TableInit ==
  /\ AppIdle
  /\ NormIdle
  /\ ScoreIdle
  /\ LoadIdle
  /\ RankIdle
  /\ ClassIdle
  /\ csv = [exists |-> FALSE, rows |-> <<>>]
  /\ reference = NotAsked
  /\ query = NotAsked
  /\ profile = NotAsked

EvaluateTable == EvaluateOver(TableQueryInputs)

TableNext ==
  \/ LoadReference
  \/ EvaluateTable

TableSpec == TableInit /\ [][TableNext]_vars

(* the table entry the query speaks of, and whether there is one *)
HasEntry ==
  TableKey(query.gender, query.weight_class, query.lift_name)
    \in DOMAIN FALLBACK_OPENIPF_PERCENTILES
QueriedEntry ==
  FALLBACK_OPENIPF_PERCENTILES[TableKey(query.gender, query.weight_class, query.lift_name)]

FromTable == profile # NotAsked /\ profile.source = "static table"

(* the claim as it stands: the band of a static answer has rank 10, 25 or
   50, or is the band below the median, and its threshold is the table's
   elite10, top25 or median *)
C26_ThreeTiers ==
  (FromTable /\ HasEntry) =>
    /\ profile.band.rank \in {10, 25, 50, 90}
    /\ profile.band.threshold \in {Num(1000000 * QueriedEntry.median),
                                   Num(1000000 * QueriedEntry.top25),
                                   Num(1000000 * QueriedEntry.elite10)}

(* the world record of the queried class and lift, in thousandths *)
QueriedRecord ==
  IF TableKey(query.gender, query.weight_class, query.lift_name)[1] = MALE
  THEN IPF_WORLD_RECORDS_MEN[<<query.weight_class, Lower(query.lift_name)>>]
  ELSE IPF_WORLD_RECORDS_WOMEN[<<query.weight_class, Lower(query.lift_name)>>]

(* the five cut points of the static path, strictest first, in millionths
   of a kilogram: 97% of the world record, elite10 plus 40% of the way to
   the world record, elite10, top25 and median *)
TableCuts ==
  <<[rank |-> 1, cut |-> Max(1000000 * QueriedEntry.elite10, 970 * QueriedRecord)],
    [rank |-> 5, cut |-> 600000 * QueriedEntry.elite10 + 400 * QueriedRecord],
    [rank |-> 10, cut |-> 1000000 * QueriedEntry.elite10],
    [rank |-> 25, cut |-> 1000000 * QueriedEntry.top25],
    [rank |-> 50, cut |-> 1000000 * QueriedEntry.median]>>

CutsReached == {i \in 1..5 : 1000 * query.lift_value.v >= TableCuts[i].cut}

(* C26: the static table classifies a lift into five tiers and the tier
   below the median: the cut points are 97% of the IPF world record or
   elite10 if that is more (top 1%), elite10 plus 40% of the distance to
   the world record, which lies above elite10 (top 5%), and
   the table's elite10, top25 and median; the band is the first of them the
   lift reaches, with that cut point as threshold, and rank 90 with the
   median as threshold when it reaches none; a query without table entry is
   unranked. *)
C26_FiveTiers ==
  FromTable =>
    IF ~HasEntry THEN profile.band.rank = 999 /\ profile.band.threshold = None
    ELSE IF CutsReached = {}
         THEN /\ profile.band.rank = 90
              /\ profile.band.threshold = Num(1000000 * QueriedEntry.median)
    ELSE \E i \in CutsReached :
           /\ \A j \in CutsReached : i <= j
           /\ profile.band.rank = TableCuts[i].rank
           /\ profile.band.threshold = Num(TableCuts[i].cut)

(* a male 83 kg squat of 317.675 kg has been answered from the static table
   as top 1% with the threshold 317.675 kg, which is 97% of the world
   record of 327.5 kg and no value of the table *)
C26_Witness ==
  /\ FromTable
  /\ HasEntry
  /\ query.weight_class = "83"
  /\ query.lift_value = Num(317675)
  /\ QueriedEntry = TableEntry(240, 265, 290)
  /\ profile.band.rank = 1
  /\ profile.band.threshold = Num(317675000)

----------------------------------------------------------------------------
(* src/powertrack_app.py: the active dataset of a session *)

DEFAULT_AUTO_REFRESH_SECONDS == 45

(* A dataset is the (table, metadata) pair a load returns.  The table and
   the metadata each say which load built them: 0 for the sample file and
   for an uploaded file, n for the n-th load liftingcast.com has answered. *)
Dataset(source, meet_id, load) ==
  [table |-> [load |-> load, source |-> source, meet_id |-> meet_id],
   meta |-> [load |-> load, source |-> source, meet_id |-> meet_id]]

load_sample_dataset == Dataset("sample_csv", "avancus_houston_primetime_2025", 0)
load_uploaded_csv(filename) == Dataset("uploaded_csv", filename, 0)

(* what a call that raised leaves in the place of its result *)
Failed == [raised |-> TRUE]
(* refresh_active_liftingcast_dataset returning None *)
NoMeet == [raised |-> FALSE]

(* the loads of a run that have not been called *)
NoLoads == [submit |-> "none", manual |-> "none", auto |-> "none", elapsed |-> 0,
            previous |-> 0]

(* the time of something that has not happened *)
Never == 0 - 1

(* The world a run of main() works on: the session state, the cache of
   load_liftingcast_cached, the count of answered loads, the result of the
   last call and the log of the run. *)
World(s, c, n) == [session |-> s, cache |-> c, loads |-> n, got |-> NoMeet, log |-> NoLoads]

(* load_liftingcast_cached(meet_reference): st.cache_data returns what it
   holds for the argument and keeps what a call returns, not what it raises *)
load_liftingcast_cached(w, meet_reference, answers) ==
  IF meet_reference \in DOMAIN w.cache THEN [w EXCEPT !.got = w.cache[meet_reference]]
  ELSE IF answers
       THEN [w EXCEPT !.got = Dataset("liftingcast", meet_reference, w.loads + 1),
                      !.loads = w.loads + 1,
                      !.cache = (meet_reference :> Dataset("liftingcast", meet_reference,
                                                           w.loads + 1)) @@ w.cache]
  ELSE [w EXCEPT !.got = Failed]

(* the refreshed table is stored with the metadata the session had *)
Refreshed_KeepsMetadata(r, now) ==
  IF r.got = Failed THEN r
  ELSE [r EXCEPT !.session.active_dataset.table = r.got.table,
                 !.session.last_refresh_at = now]

(* lines 2762-2764 once the load has come back or raised *)
Refreshed(r, now) ==
  IF r.got = Failed THEN r
  ELSE [r EXCEPT !.session.active_dataset = r.got,
                 !.session.last_refresh_at = now]

refresh_active_liftingcast_dataset(w, now, answers) ==
  IF w.session.last_meet_id = "" THEN [w EXCEPT !.got = NoMeet]
  ELSE Refreshed(load_liftingcast_cached([w EXCEPT !.cache = <<>>],
                                         w.session.last_meet_id, answers),
                 now)

Outcome(got) == IF got = Failed THEN "failed" ELSE IF got = NoMeet THEN "no meet" ELSE "ok"

(* the refresh is due whatever the time of the last one *)
RefreshDue_Always(last_refresh, now, interval) == TRUE

(* not (last_refresh is not None and (now - last_refresh) < interval) *)
RefreshDue(last_refresh, now, interval) == ~(now - last_refresh < interval)

AutoRefreshed(w, r, now) ==
  [r EXCEPT !.session.last_auto_refresh =
              IF Outcome(r.got) = "ok" THEN now ELSE w.session.last_auto_refresh,
            !.log.auto = Outcome(r.got),
            !.log.elapsed = now - w.session.last_refresh_at,
            !.log.previous = w.session.last_auto_refresh]

(* metadata is the metadata main() read before the live section *)
maybe_auto_refresh_live_data(w, metadata, now, answers) ==
  IF metadata.source # "liftingcast" THEN w
  ELSE IF ~w.session.auto_refresh_live THEN w
  ELSE IF ~RefreshDue(w.session.last_refresh_at, now, w.session.auto_refresh_interval) THEN w
  ELSE AutoRefreshed(w, refresh_active_liftingcast_dataset(w, now, answers), now)

(* the branch of main() for the chosen data source *)
Loaded(r, meet_reference, now) ==
  IF r.got = Failed THEN [r EXCEPT !.log.submit = "failed"]
  ELSE [r EXCEPT !.session.active_dataset = r.got,
                 !.session.last_meet_id = meet_reference,
                 !.session.last_refresh_at = now,
                 !.log.submit = "ok"]

Chosen(w, dataset, now) ==
  [w EXCEPT !.session.active_dataset = dataset,
            !.session.last_meet_id = "",
            !.session.last_refresh_at = now]

(* input: source_option, submitted, meet_reference (stripped), uploaded
   ("" for no file, a file name, or "bad" for a file that cannot be read),
   refresh_now, toggle and slider *)
DataSource(w, input, now, answers) ==
  IF input.source_option = "Sample Dataset" THEN Chosen(w, load_sample_dataset, now)
  ELSE IF input.source_option = "LiftingCast Live"
       THEN IF input.submitted /\ input.meet_reference # ""
            THEN Loaded(load_liftingcast_cached(w, input.meet_reference, answers),
                        input.meet_reference, now)
            ELSE w
  ELSE IF input.uploaded = "" \/ input.uploaded = "bad" THEN w
  ELSE Chosen(w, load_uploaded_csv(input.uploaded), now)

ManualRefreshed(r) == [r EXCEPT !.log.manual = Outcome(r.got)]

Toggled(w, input) ==
  [w EXCEPT !.session.auto_refresh_live = input.toggle,
            !.session.auto_refresh_interval = input.slider]

(* the live section of main(), for the metadata read at line 4472 *)
LiveRefresh(w, metadata, input, now, answers) ==
  IF metadata.source = "liftingcast"
  THEN maybe_auto_refresh_live_data(
         Toggled(IF input.refresh_now
                 THEN ManualRefreshed(refresh_active_liftingcast_dataset(w, now, answers))
                 ELSE w,
                 input),
         metadata, now, answers)
  ELSE [w EXCEPT !.session.auto_refresh_live = FALSE]

AfterSource(w, input, now, answers) ==
  LiveRefresh(w, w.session.active_dataset.meta, input, now, answers)

main(w, input, now, answers) == AfterSource(DataSource(w, input, now, answers), input, now, answers)

----------------------------------------------------------------------------
(* A session: runs of main() on what the user has chosen, while time goes
   by and liftingcast.com comes and goes *)

MaxLoads == 3
MaxClock == 60
TickSeconds == 15

MeetInputs == {"m1", "m2"}
SliderInputs == {15, DEFAULT_AUTO_REFRESH_SECONDS}

(* lines 4405-4407 on the first run of a session *)
NewSession ==
  [active_dataset |-> load_sample_dataset,
   last_meet_id |-> "",
   last_refresh_at |-> 0,
   auto_refresh_live |-> FALSE,
   auto_refresh_interval |-> DEFAULT_AUTO_REFRESH_SECONDS,
   last_auto_refresh |-> Never]

SessionInit ==
  /\ NormIdle
  /\ ScoreIdle
  /\ LoadIdle
  /\ RefIdle
  /\ FeedIdle
  /\ session = NewSession
  /\ cache = <<>>
  /\ loads = 0
  /\ up \in BOOLEAN
  /\ clock = 0
  /\ runLog = NoLoads

Ran(w) ==
  /\ session' = w.session
  /\ cache' = w.cache
  /\ loads' = w.loads
  /\ runLog' = w.log
  /\ UNCHANGED <<up, clock>>
  /\ UNCHANGED <<normVars, scoreVars, loadVars, refVars, feedVars>>

Input(source_option, submitted, meet_reference, uploaded, refresh_now, toggle, slider) ==
  [source_option |-> source_option, submitted |-> submitted,
   meet_reference |-> meet_reference, uploaded |-> uploaded,
   refresh_now |-> refresh_now, toggle |-> toggle, slider |-> slider]

(* the live section shows its widgets only for a live dataset: without
   them the button is not clicked *)
LiveInputs == {FALSE, TRUE} \X {FALSE, TRUE} \X SliderInputs

Run(source_option, submitted, meet_reference, uploaded) ==
  /\ loads < MaxLoads
  /\ \E live \in LiveInputs :
       Ran(main(World(session, cache, loads),
                Input(source_option, submitted, meet_reference, uploaded,
                      live[1], live[2], live[3]),
                clock, up))

RunSample == Run("Sample Dataset", FALSE, "", "")

RunLive == \E meet_reference \in MeetInputs \cup {""} : \E submitted \in BOOLEAN :
             Run("LiftingCast Live", submitted, meet_reference, "")

RunUpload == \E uploaded \in {"", "bad", "meet.csv"} : Run("Upload CSV", FALSE, "", uploaded)

Tick ==
  /\ clock + TickSeconds <= MaxClock
  /\ clock' = clock + TickSeconds
  /\ UNCHANGED <<session, cache, loads, up, runLog>>
  /\ UNCHANGED <<normVars, scoreVars, loadVars, refVars, feedVars>>

(* liftingcast.com stops or starts answering *)
Outage ==
  /\ up' = ~up
  /\ UNCHANGED <<session, cache, loads, clock, runLog>>
  /\ UNCHANGED <<normVars, scoreVars, loadVars, refVars, feedVars>>

SessionNext ==
  \/ RunSample
  \/ RunLive
  \/ RunUpload
  \/ Tick
  \/ Outage

SessionSpec == SessionInit /\ [][SessionNext]_vars

----------------------------------------------------------------------------
(* Claims about the session *)

Active == session.active_dataset

(* the table and the metadata of the active dataset come from the same
   load *)
ProducedTogether ==
  /\ Active.table.load = Active.meta.load
  /\ Active.table.source = Active.meta.source
  /\ Active.table.meet_id = Active.meta.meet_id
  /\ Active.meta.load <= loads

(* a step that is a run of main() *)
IsRun == clock' = clock /\ up' = up

LoadOutcomes(log) == {log.submit, log.manual, log.auto}

(* C22: across source selections, live loads, manual refreshes and
   auto-refreshes the active dataset is always a table and a metadata
   produced together by one successful load: a run whose loads and
   refreshes fail leaves both as they were, and a run replaces them only by
   the pair a source selection or a successful load or refresh gave. *)
C22_ActiveDatasetIsOnePair ==
  /\ []ProducedTogether
  /\ [][IsRun =>
          /\ ("failed" \in LoadOutcomes(runLog') /\ "ok" \notin LoadOutcomes(runLog'))
               => session'.active_dataset = session.active_dataset
          /\ session'.active_dataset # session.active_dataset
               => \/ session'.active_dataset \in {load_sample_dataset,
                                                  load_uploaded_csv("meet.csv")}
                  \/ /\ "ok" \in LoadOutcomes(runLog')
                     /\ \E meet_id \in MeetInputs : \E load \in 1..loads' :
                          session'.active_dataset = Dataset("liftingcast", meet_id, load)]_vars

(* a manual refresh and the auto-refresh after it have failed in a run, and
   the active dataset is still the pair of the second answered load *)
C22_Witness ==
  /\ runLog.manual = "failed"
  /\ runLog.auto = "failed"
  /\ Active = Dataset("liftingcast", "m1", 2)
  /\ session.last_meet_id = "m1"

(* C29: an auto-refresh reloads only when the active dataset is a
   liftingcast one, auto-refresh is on and at least the chosen interval has
   gone by since last_refresh_at; a successful refresh sets last_refresh_at
   to the time of the refresh, so that two successful auto-refreshes are
   never closer than the interval; a failed auto-refresh leaves
   last_refresh_at and the active dataset as they were. *)
C29_AutoRefreshInterval ==
  /\ [](runLog.auto \in {"ok", "failed"}
          => /\ Active.meta.source = "liftingcast"
             /\ session.auto_refresh_live
             /\ runLog.elapsed >= session.auto_refresh_interval)
  /\ []((runLog.auto = "ok" /\ runLog.previous # Never)
          => session.last_auto_refresh - runLog.previous >= session.auto_refresh_interval)
  /\ [][IsRun =>
          /\ ("ok" \in {runLog'.manual, runLog'.auto})
               => session'.last_refresh_at = clock
          /\ runLog'.auto = "failed"
               => /\ session'.last_refresh_at = session.last_refresh_at
                  /\ session'.active_dataset = session.active_dataset]_vars

(* an auto-refresh has succeeded 15 seconds after the one before it, the
   interval being 15 seconds *)
C29_Witness ==
  /\ runLog.auto = "ok"
  /\ runLog.previous # Never
  /\ session.auto_refresh_interval = 15
  /\ session.last_auto_refresh - runLog.previous = 15
  /\ session.last_refresh_at = session.last_auto_refresh

----------------------------------------------------------------------------
(* src/liftingcast_loader.py: _parse_meet_id on the text of a meet
   reference.  A text is a sequence of characters; the parts of a reference
   are the strings the characters of a path segment spell. *)

LIFTINGCAST_COM ==
  <<"l", "i", "f", "t", "i", "n", "g", "c", "a", "s", "t", ".", "c", "o", "m">>

(* the string a sequence of characters spells *)
Spelled(chars) ==
  LET spelled[i \in 0..Len(chars)] == IF i = 0 THEN "" ELSE spelled[i - 1] \o chars[i]
  IN  spelled[Len(chars)]

(* str.find(): the first position from start on that holds one of the
   characters, 0 when none does *)
Find(s, chars, start) ==
  LET at == {i \in start..Len(s) : s[i] \in chars}
  IN  IF at = {} THEN 0 ELSE CHOOSE i \in at : \A j \in at : i <= j

From(s, start) == SubSeq(s, start, Len(s))
Before(s, end) == IF end = 0 THEN s ELSE SubSeq(s, 1, end - 1)

SCHEME_CHARS == {"+", "-", "."}

(* urllib.parse.urlsplit's scheme: the characters before the first colon,
   when they are scheme characters led by a letter *)
AfterScheme(url) ==
  LET colon == Find(url, {":"}, 1)
  IN  IF /\ colon > 1
         /\ IsLetter(url[1])
         /\ \A i \in 1..(colon - 1) :
              IsLetter(url[i]) \/ url[i] \in SCHEME_CHARS \/ url[i] \in {"0", "1", "2"}
      THEN From(url, colon + 1)
      ELSE url

(* what follows the network location *)
AfterNetloc(url) ==
  IF Len(url) >= 2 /\ SubSeq(url, 1, 2) = <<"/", "/">>
  THEN LET delim == Find(url, {"/", "?", "#"}, 3)
       IN  IF delim = 0 THEN <<>> ELSE From(url, delim)
  ELSE url

(* the parameters of the last path segment split off *)
_splitparams(url) ==
  LET slashes == {i \in 1..Len(url) : url[i] = "/"}
      last == IF slashes = {} THEN 1 ELSE CHOOSE i \in slashes : \A j \in slashes : j <= i
  IN  Before(url, Find(url, {";"}, last))

(* urlparse(value).path *)
UrlPath(value) ==
  LET rest == AfterNetloc(AfterScheme(value))
      unfragmented == Before(rest, Find(rest, {"#"}, 1))
  IN  _splitparams(Before(unfragmented, Find(unfragmented, {"?"}, 1)))

(* [part for part in path.split("/") if part] *)
PathParts(path) ==
  LET split[i \in 0..Len(path)] ==
        IF i = 0 THEN [parts |-> <<>>, part |-> <<>>]
        ELSE LET before == split[i - 1]
             IN  IF path[i] # "/" THEN [before EXCEPT !.part = Append(@, path[i])]
                 ELSE IF before.part = <<>> THEN before
                 ELSE [parts |-> Append(before.parts, Spelled(before.part)), part |-> <<>>]
      end == split[Len(path)]
  IN  IF end.part = <<>> THEN end.parts ELSE Append(end.parts, Spelled(end.part))

(* the reference a text is read as *)
ReadReference(raw_value) ==
  LET value == Strip(raw_value)
      url == Contains(value, LIFTINGCAST_COM)
  IN  [text |-> IF raw_value = <<>> THEN "empty" ELSE IF value = <<>> THEN "blank" ELSE "value",
       url |-> url,
       parts |-> IF url THEN PathParts(UrlPath(value)) ELSE <<Spelled(value)>>,
       raw |-> raw_value]

----------------------------------------------------------------------------
(* The adapter called once on the text of a meet reference *)

Https == <<"h", "t", "t", "p", "s", ":", "/", "/">>
OnSite(path) == Https \o LIFTINGCAST_COM \o path
MeetsPath == <<"/", "m", "e", "e", "t", "s">>
M1Path == <<"/", "m", "1">>
M2Path == <<"/", "m", "2">>

TextInputs ==
  {<<"m", "1">>,
   <<" ", "m", "1", "\t">>,
   <<"m", " ", "1">>,
   <<>>,
   <<" ", "\t">>,
   OnSite(MeetsPath \o M1Path),
   <<" ">> \o Https \o <<"w", "w", "w", ".">> \o LIFTINGCAST_COM \o MeetsPath \o M1Path
     \o <<"/", "r", "e", "s", "u", "l", "t", "s", " ">>,
   LIFTINGCAST_COM \o MeetsPath \o M1Path,
   OnSite(MeetsPath \o M1Path \o <<"?", "t", "=", "/", "m", "2">>),
   OnSite(MeetsPath \o M1Path \o <<"#", "t">>),
   OnSite(MeetsPath \o M2Path \o <<";", "v">>),
   OnSite(<<"/", "x">> \o MeetsPath \o M2Path \o MeetsPath \o M1Path),
   OnSite(MeetsPath \o <<"/">> \o M1Path),
   OnSite(MeetsPath),
   OnSite(MeetsPath \o <<"/">>),
   OnSite(MeetsPath \o <<"?", "m", "1">>),
   OnSite(<<"/">>),
   OnSite(<<>>)}

ParseInit ==
  /\ AppIdle
  /\ NormIdle
  /\ ScoreIdle
  /\ RefIdle
  /\ meetReference \in {ReadReference(raw_value) : raw_value \in TextInputs}
  /\ timeoutArg \in TimeoutInputs
  /\ response \in AnswerInputs
  /\ requests = <<>>
  /\ loaded = NotCalled

ParseSpec == ParseInit /\ [][LoadNext]_vars

(* the text is the id with nothing but whitespace around it *)
BareId(raw, id) ==
  /\ ~Contains(raw, LIFTINGCAST_COM)
  /\ \E i \in 1..Len(raw) : \E j \in i..Len(raw) :
       /\ id = SubSeq(raw, i, j)
       /\ ~IsSpace(raw[i]) /\ ~IsSpace(raw[j])
       /\ \A k \in 1..Len(raw) : (k < i \/ k > j) => IsSpace(raw[k])

UrlDelimiters == {"/", "?", "#", ";", " ", "\t"}

(* where the path of a URL ends: at its query, its fragment or its end *)
PathEnd(raw) ==
  LET end == Find(raw, {"?", "#"}, 1) IN IF end = 0 THEN Len(raw) + 1 ELSE end

(* the positions of the path at which a segment 'meets' begins *)
MeetsAt(raw) ==
  {i \in 1..(PathEnd(raw) - Len(MeetsPath)) :
     /\ SubSeq(raw, i, i + Len(MeetsPath) - 1) = MeetsPath
     /\ (i + Len(MeetsPath) = PathEnd(raw) \/ raw[i + Len(MeetsPath)] \in UrlDelimiters)}

FirstMeets(raw) == CHOOSE i \in MeetsAt(raw) : \A j \in MeetsAt(raw) : i <= j

(* the text is a liftingcast.com URL whose first 'meets' segment is
   directly followed by the segment id *)
UrlOf(raw, id) ==
  /\ Contains(raw, LIFTINGCAST_COM)
  /\ MeetsAt(raw) # {}
  /\ LET start == FirstMeets(raw) + Len(MeetsPath) + 1
     IN  /\ start <= PathEnd(raw) - 1
         /\ ~(raw[start] \in UrlDelimiters)
         /\ \E end \in start..(PathEnd(raw) - 1) :
              /\ id = SubSeq(raw, start, end)
              /\ \A k \in start..end : ~(raw[k] \in UrlDelimiters)
              /\ (end + 1 = Len(raw) + 1 \/ raw[end + 1] \in UrlDelimiters)

(* the text is a liftingcast.com URL with a 'meets' segment and nothing
   but slashes between it and the end of the path *)
NoSegmentAfterMeets(raw) ==
  /\ Contains(raw, LIFTINGCAST_COM)
  /\ MeetsAt(raw) # {}
  /\ \A k \in (FirstMeets(raw) + Len(MeetsPath))..(PathEnd(raw) - 1) :
       raw[k] = "/" \/ IsSpace(raw[k])

Ids(raw) == {SubSeq(raw, i, j) : i \in 1..Len(raw), j \in 1..Len(raw)}

RequestedMeet(meet_id) == \E timeout \in TimeoutInputs : requests = <<Request(meet_id, timeout)>>

(* C30: a bare meet id, whitespace around it stripped, is requested as
   itself, and a liftingcast.com URL as the path segment that directly
   follows its 'meets' segment, so that a meet is addressed alike by URL and
   by id; an empty or whitespace-only reference and a liftingcast.com URL
   with no segment after 'meets' end in a ValueError with no HTTP request
   made. *)
C30_ParseMeetId ==
  Finished =>
    LET raw == meetReference.raw
    IN  /\ \A id \in Ids(raw) :
             (BareId(raw, id) \/ UrlOf(raw, id)) => RequestedMeet(Spelled(id))
        /\ (raw = <<>> \/ Strip(raw) = <<>> \/ NoSegmentAfterMeets(raw))
             => /\ loaded = Raise("ValueError", "")
                /\ requests = <<>>

(* the meet m1 has been requested for a URL with whitespace around it and a
   segment after the id *)
C30_Witness ==
  /\ Finished
  /\ UrlOf(meetReference.raw, <<"m", "1">>)
  /\ IsSpace(meetReference.raw[1])
  /\ Len(meetReference.parts) = 3
  /\ RequestedMeet("m1")

----------------------------------------------------------------------------
(* _select_reference_band applied to the statistics that
   _build_openipf_reference built from a file *)

BandLiftInputs ==
  {90000, 100000, 110000, 120000, 150000, 200000, 225000, 240000, 245000, 247500,
   250000, 400000, 415000, 430000}

BandInit ==
  /\ AppIdle
  /\ NormIdle
  /\ ScoreIdle
  /\ LoadIdle
  /\ RankIdle
  /\ ClassIdle
  /\ csv \in FileInputs
  /\ reference = NotAsked
  /\ query = NotAsked
  /\ profile = NotAsked

SelectBuiltBand ==
  /\ reference # NotAsked
  /\ \E key \in DOMAIN reference.stats : \E lift_value \in BandLiftInputs :
       /\ refStats' = reference.stats[key]
       /\ liftValue' = lift_value
       /\ bandOf' = _select_reference_band(reference.stats[key], lift_value)
  /\ UNCHANGED <<rankOf, csv, reference, query, profile>>
  /\ UNCHANGED <<normVars, scoreVars, loadVars, classVars, appVars>>

BandNext ==
  \/ LoadReference
  \/ SelectBuiltBand

BandSpec == BandInit /\ [][BandNext]_vars

Ordered(stats) ==
  /\ \A cut \in {stats.median, stats.top25, stats.top10, stats.top5, stats.top1} :
       cut.k = "num"
  /\ stats.median.v <= stats.top25.v
  /\ stats.top25.v <= stats.top10.v
  /\ stats.top10.v <= stats.top5.v
  /\ stats.top5.v <= stats.top1.v

(* C28: the cut points of every LiftPercentileStats that
   _build_openipf_reference built are ordered median <= top25 <= top10 <=
   top5 <= top1, and the band of a value has a rank among 1, 5, 10, 25, 50
   and 90 that is never larger than the rank of the band of a smaller
   value. *)
C28_OrderedCutsMonotoneBands ==
  /\ reference # NotAsked => \A key \in DOMAIN reference.stats : Ordered(reference.stats[key])
  /\ bandOf # NotAsked
       => /\ bandOf.rank \in {1, 5, 10, 25, 50, 90}
          /\ \A a \in BandLiftInputs :
               a <= liftValue => bandOf.rank <= _select_reference_band(refStats, a).rank

(* a value is in the top 1% band of statistics of 40 or more lifts whose
   five cut points all differ, and a smaller value is in the band below the
   median *)
C28_Witness ==
  /\ bandOf # NotAsked
  /\ bandOf.rank = 1
  /\ refStats.count >= OPENIPF_MIN_SAMPLE_SIZE
  /\ refStats.median.v < refStats.top25.v
  /\ refStats.top25.v < refStats.top10.v
  /\ refStats.top10.v < refStats.top5.v
  /\ refStats.top5.v < refStats.top1.v
  /\ \E a \in BandLiftInputs : a < liftValue /\ _select_reference_band(refStats, a).rank = 90

----------------------------------------------------------------------------
(* The adapter called on a list that holds, besides one lifter, up to
   MaxOtherDocs documents that are attempts or look like attempts *)

MaxOtherDocs == 2

(* documents that differ from a squat attempt of the lifter in their _id,
   in having a lifterId, in their liftName or in their attemptNumber *)
OtherDocInputs ==
  {[AttemptDoc(1, liftName, attemptNumber, Num(200000), Good)
      EXCEPT !._id = _id, !.hasLifterId = hasLifterId] :
     _id \in {DocId("a"), DocId("l"), DocId(""), NullId},
     hasLifterId \in BOOLEAN,
     liftName \in {"squat", ""},
     attemptNumber \in {1, 4}}

OtherDocLists == UNION {[1..n -> OtherDocInputs] : n \in 0..MaxOtherDocs}

CollectInit ==
  /\ AppIdle
  /\ NormIdle
  /\ ScoreIdle
  /\ RefIdle
  /\ meetReference = PlainReference
  /\ timeoutArg = 15
  /\ \E others \in OtherDocLists :
       response = OkAnswer(Docs(MeetDoc("m1", Str(KG)),
                                <<LifterDoc(1, Male, Num(181000), TRUE)>>, others))
  /\ requests = <<>>
  /\ loaded = NotCalled

CollectSpec == CollectInit /\ [][LoadNext]_vars

(* a document with an _id that starts with "a", a lifter reference, a
   non-empty lift name and an attempt number from 1 to 3 *)
WellFormedAttempt(doc) ==
  /\ doc._id.k = "str" /\ doc._id.first = "a"
  /\ doc.hasLifterId
  /\ doc.liftName # ""
  /\ doc.attemptNumber \in 1..3

(* the answer of the server without the documents that are no well-formed
   attempts *)
WellFormedOnly ==
  [response EXCEPT !.list.attempts = SelectSeq(response.list.attempts, WellFormedAttempt)]

(* C23: an attempt is recorded only for a document whose id starts with
   'a' and that has a lifter reference, a non-empty lift name and an attempt
   number from 1 to 3; every other document is skipped without raising, so
   that the call ends as it ends on the list without those documents. *)
C23_OnlyWellFormedAttempts ==
  Finished =>
    /\ Returned =>
         \A row \in LoadedRows : \A lift \in LiftNames : \A n \in AttemptNumbers :
           (row.Weight[lift][n] # None \/ row.HRef[lift][n] # NoneText)
             => \E i \in 1..Len(SourceDocs) :
                  /\ WellFormedAttempt(SourceDocs[i])
                  /\ SourceDocs[i].lifterId = row.LifterID
                  /\ SourceDocs[i].liftName = lift
                  /\ SourceDocs[i].attemptNumber = n
    /\ \E pandas \in PandasBuilds :
         loaded = load_liftingcast_meet(meetReference, timeoutArg, WellFormedOnly, pandas).result

----------------------------------------------------------------------------
(* The adapter called on a meet with division documents and up to two
   documents whose lifters list up to MaxDivisions divisions *)

MaxDivisions == 2

Open == Str(<<"O", "p", "e", "n">>)
Junior == Str(<<"J", "u", "n", "i", "o", "r">>)
Class83 == Str(<<"8", "3">>)
Class74 == Str(<<"7", "4">>)
RawTag == Str(<<"R", "A", "W">>)
LowerRawTag == Str(<<"r", "a", "w">>)
PlyTag == Str(<<"s", "i", "n", "g", "l", "e", "-", "p", "l", "y">>)

(* two documents of the division d1, of which the later counts, the
   division d2, and a document d4 without weight classes; no document is
   there for d3 *)
DivisionDocInputs ==
  <<DivisionDoc("d1", Junior, "w83" :> Class74),
    DivisionDoc("d1", Open, "w83" :> Class83),
    DivisionDoc("d2", Junior, "w74" :> Class74),
    [DivisionDoc("d4", Open, "w83" :> Class83) EXCEPT !.hasWeightClasses = FALSE]>>

DivisionInputs ==
  {Division("d1", "w83", RawTag),
   Division("d1", "w99", LowerRawTag),
   Division("d2", "w74", NoneText),
   Division("d3", "w83", PlyTag),
   Division("d4", "", Str(<<>>))}

DivisionLists == UNION {[1..n -> DivisionInputs] : n \in 0..MaxDivisions}

(* a lifter, and documents no row is made of: an attempt whose _id starts
   with "l", a lifter without the key divisions and a document whose _id
   starts with another letter *)
Lifter(id, bodyWeight, listed) ==
  [LifterDoc(id, Male, bodyWeight, TRUE) EXCEPT !.listed = listed]

NoLifterInputs ==
  {[Lifter(2, Num(74000), <<Division("d2", "w74", PlyTag)>>) EXCEPT !.hasLifterId = TRUE],
   [Lifter(2, Num(74000), <<Division("d2", "w74", PlyTag)>>) EXCEPT !.divisions = FALSE],
   [Lifter(2, Num(74000), <<Division("d2", "w74", PlyTag)>>) EXCEPT !._id = DocId("m")]}

DivisionInit ==
  /\ AppIdle
  /\ NormIdle
  /\ ScoreIdle
  /\ RefIdle
  /\ meetReference = PlainReference
  /\ timeoutArg = 15
  /\ \E first \in DivisionLists :
     \E others \in {<<>>} \cup {<<doc>> : doc \in NoLifterInputs}
                     \cup {<<Lifter(2, Num(74000), second)>> : second \in DivisionLists} :
       response = OkAnswer(DividedDocs(MeetDoc("m1", Str(KG)), DivisionDocInputs,
                                       <<Lifter(1, Num(82500), first)>> \o others, <<>>))
  /\ requests = <<>>
  /\ loaded = NotCalled

DivisionSpec == DivisionInit /\ [][LoadNext]_vars

(* the documents a row is to be made of *)
LifterDocuments ==
  {i \in 1..Len(SourceDocs) :
     /\ SourceDocs[i]._id = DocId("l")
     /\ SourceDocs[i].divisions
     /\ ~SourceDocs[i].hasLifterId}

(* the division documents that count: the last of each id among those with
   weight classes *)
Counting(division_id) ==
  {i \in 1..Len(response.list.divisions) :
     /\ response.list.divisions[i].id = division_id
     /\ response.list.divisions[i].hasWeightClasses
     /\ \A j \in (i + 1)..Len(response.list.divisions) :
          ~(/\ response.list.divisions[j].id = division_id
            /\ response.list.divisions[j].hasWeightClasses)}

(* the name of the first listed division of a document and of the weight
   class declared in it, NoneText when there is none *)
FirstDivisionName(doc) ==
  IF doc.listed = <<>> \/ Counting(doc.listed[1].divisionId) = {} THEN NoneText
  ELSE response.list.divisions[CHOOSE i \in Counting(doc.listed[1].divisionId) : TRUE].name

FirstWeightClass(doc) ==
  IF doc.listed = <<>> \/ Counting(doc.listed[1].divisionId) = {} THEN NoneText
  ELSE LET classes ==
             response.list.divisions[CHOOSE i \in Counting(doc.listed[1].divisionId) : TRUE]
               .weightClasses
       IN  IF doc.listed[1].declaredAwardsWeightClassId \in DOMAIN classes
           THEN classes[doc.listed[1].declaredAwardsWeightClassId] ELSE NoneText

(* the answer of the server with every lifter's later divisions taken away *)
FirstDivisionsOnly ==
  [response EXCEPT !.list.lifters =
     [i \in 1..Len(response.list.lifters) |->
        [response.list.lifters[i] EXCEPT !.listed = IF @ = <<>> THEN <<>> ELSE <<@[1]>>]]]

(* C24: the table has exactly one row for every document whose id starts
   with 'l' and that has a divisions field and no lifter reference; the
   weight class and the division name of the row are those of the lifter's
   first listed division, missing when that division cannot be resolved
   whatever the later divisions are, and the call ends as it ends with
   every lifter's later divisions taken away: same rows, same equipment. *)
C24_FirstDivisionOnly ==
  Returned =>
    /\ Len(loaded.rows) = Cardinality(LifterDocuments)
    /\ \A i \in LifterDocuments :
         \E row \in LoadedRows :
           /\ row.LifterID = SourceDocs[i].id
           /\ row.AwardsDivision = FirstDivisionName(SourceDocs[i])
           /\ row.WeightClass = FirstWeightClass(SourceDocs[i])
    /\ \E pandas \in PandasBuilds :
         loaded = load_liftingcast_meet(meetReference, timeoutArg, FirstDivisionsOnly,
                                        pandas).result

(* a lifter whose first division has no document and whose second division
   resolves has a row without weight class and division name, next to a
   document with a lifter reference that has no row *)
C24_Witness ==
  /\ Returned
  /\ Len(SourceDocs) = 2
  /\ SourceDocs[2].hasLifterId
  /\ SourceDocs[1].listed = <<Division("d3", "w83", PlyTag), Division("d1", "w83", RawTag)>>
  /\ Len(loaded.rows) = 1
  /\ loaded.rows[1].WeightClass = NoneText
  /\ loaded.rows[1].AwardsDivision = NoneText

(* the equipment tags of the lifters that have one *)
LifterTags ==
  {SourceDocs[i].listed[1].rawOrEquipped :
     i \in {j \in LifterDocuments : SourceDocs[j].listed # <<>>}} \ {NoneText, Str(<<>>)}

(* C25: the equipment of the meet is the one equipment tag of its lifters,
   title-cased, when the tags of all lifters that have one are equal; it is
   Mixed when two tags differ, be it in letter case only; and it is unset
   when no lifter has a tag. *)
C25_MeetEquipment ==
  Returned =>
    /\ LifterTags = {} => loaded.equipment = NoneText
    /\ \A tag \in LifterTags : LifterTags = {tag} => loaded.equipment = Str(Title(tag.s))
    /\ Cardinality(LifterTags) > 1 => loaded.equipment = Str(MIXED)

(* a meet of a lifter tagged single-ply and a lifter without tag is
   Single-Ply *)
C25_Witness ==
  /\ Returned
  /\ Cardinality(LifterDocuments) = 2
  /\ LifterTags = {PlyTag}
  /\ \E i \in LifterDocuments :
       SourceDocs[i].listed # <<>> /\ SourceDocs[i].listed[1].rawOrEquipped = NoneText
  /\ loaded.equipment = Str(<<"S", "i", "n", "g", "l", "e", "-", "P", "l", "y">>)

----------------------------------------------------------------------------
(* src/liftingcast_loader.py: fetch_recent_liftingcast_meets.  Times are
   whole days counted from the time of the call, so that a meet created
   ten days ago has the creation day -10 and the cutoff of max_age_days is
   the day -max_age_days.  A date field of a document is absent, a text
   that is no date, or a day. *)

NoDate == [k |-> "absent", day |-> 0]
NotADate == [k |-> "unparsable", day |-> 0]
Day(day) == [k |-> "day", day |-> day]

(* None, NaT, a timestamp in UTC and the naive pd.Timestamp.min *)
PyNone == [k |-> "None", day |-> 0]
NaT == [k |-> "NaT", day |-> 0]
Timestamp(day) == [k |-> "utc", day |-> day]
TimestampMin == [k |-> "naive", day |-> 0]

(* pd.to_datetime(value, errors="coerce", utc=True): None for None, NaT for
   what does not parse *)
to_datetime(value) ==
  IF value.k = "absent" THEN PyNone
  ELSE IF value.k = "unparsable" THEN NaT
  ELSE Timestamp(value.day)

(* `a or b`: None is falsy, and NaT, like every datetime, is truthy *)
Or(a, b) == IF a.k = "None" THEN b ELSE a

(* pd.notna *)
notna(value) == value.k \in {"utc", "naive"}

(* the date of the document falls back on the meet date for every creation
   date that is not known *)
Skipped_KnownAnchor(doc, max_age_days) ==
  LET created_at == to_datetime(doc.createDate)
      recency_anchor == IF notna(created_at) THEN created_at ELSE to_datetime(doc.date)
  IN  \/ ~doc.has_id
      \/ max_age_days > 0 /\ notna(recency_anchor) /\ recency_anchor.day < 0 - max_age_days

(* the documents the loop leaves out *)
Skipped(doc, max_age_days) ==
  LET recency_anchor == Or(to_datetime(doc.createDate), to_datetime(doc.date))
  IN  \/ ~doc.has_id
      \/ max_age_days > 0 /\ notna(recency_anchor) /\ recency_anchor.day < 0 - max_age_days

(* the entry appended for a document *)
MeetEntry(doc) ==
  LET created_at == to_datetime(doc.createDate)
      meet_date == to_datetime(doc.date)
  IN  [id |-> doc.id,
       created_at |-> IF notna(created_at) THEN created_at ELSE PyNone,
       meet_date |-> IF notna(meet_date) THEN meet_date ELSE PyNone]

(* the key of meets.sort *)
SortKey(item) == Or(item.created_at, Or(item.meet_date, TimestampMin))

(* a datetime with time zone does not compare with one without *)
SortRaises(entries) ==
  \E i, j \in 1..Len(entries) : SortKey(entries[i]).k # SortKey(entries[j]).k

(* sort(key=..., reverse=True): the entries by descending key, entries of
   equal key in the order they had *)
SortRecent(entries) ==
  LET ahead(j, i) == \/ SortKey(entries[j]).day > SortKey(entries[i]).day
                     \/ SortKey(entries[j]).day = SortKey(entries[i]).day /\ j < i
      rank(i) == Cardinality({j \in 1..Len(entries) : ahead(j, i)})
  IN  [p \in 1..Len(entries) |-> entries[CHOOSE i \in 1..Len(entries) : rank(i) = p - 1]]

(* meets[:limit] if limit and limit > 0 else meets *)
Limited(entries, limit) ==
  IF limit > 0 THEN SubSeq(entries, 1, Min(limit, Len(entries))) ELSE entries

Listed(entries) == [kind |-> "return", type |-> "", list |-> entries]
ListRaise(type) == [kind |-> "raise", type |-> type, list |-> <<>>]

Kept(docs, max_age_days) ==
  LET keep(doc) == ~Skipped(doc, max_age_days)
  IN  LET kept == SelectSeq(docs, keep) IN [i \in 1..Len(kept) |-> MeetEntry(kept[i])]

fetch_recent_liftingcast_meets(answer, limit, max_age_days) ==
  IF answer.transport = "error" THEN ListRaise("LiftingCastError")
  ELSE IF answer.status >= 400 THEN ListRaise("LiftingCastError")
  ELSE IF answer.body = "text" THEN ListRaise("JSONDecodeError")
  ELSE IF answer.docs # "list" THEN ListRaise("LiftingCastError")
  ELSE IF SortRaises(Kept(answer.list, max_age_days)) THEN ListRaise("TypeError")
  ELSE Listed(Limited(SortRecent(Kept(answer.list, max_age_days)), limit))

----------------------------------------------------------------------------
(* fetch_recent_liftingcast_meets called once on a feed of up to MaxMeets
   documents *)

MaxMeets == 2

FeedDoc(id, has_id, createDate, date) ==
  [id |-> id, has_id |-> has_id, createDate |-> createDate, date |-> date]

(* creation dates and meet dates that are absent, no dates, within the
   120 days and before them *)
DateInputs == {NoDate, NotADate, Day(0 - 200), Day(0 - 10)}

FeedDocInputs(id) ==
  {FeedDoc(id, TRUE, createDate, date) : createDate \in DateInputs,
                                         date \in DateInputs \cup {Day(0 - 5)}}
    \cup {FeedDoc(id, FALSE, Day(0 - 10), Day(0 - 10))}

FeedLists ==
  UNION {{docs \in [1..n -> UNION {FeedDocInputs(id) : id \in 1..n}] :
            \A i \in 1..n : docs[i].id = i} : n \in 0..MaxMeets}

FeedAnswer(transport, status, body, docs, list) ==
  [transport |-> transport, status |-> status, body |-> body, docs |-> docs, list |-> list]

FeedInputs ==
  {FeedAnswer("error", 0, "", "", <<>>),
   FeedAnswer("ok", 503, "text", "", <<>>),
   FeedAnswer("ok", 200, "text", "", <<>>),
   FeedAnswer("ok", 200, "object", "missing", <<>>)}
    \cup {FeedAnswer("ok", 200, "object", "list", docs) : docs \in FeedLists}

LimitInputs == {0, 1, 2}
MaxAgeInputs == {0, 120}

FeedInit ==
  /\ NormIdle
  /\ ScoreIdle
  /\ LoadIdle
  /\ RefIdle
  /\ SessionIdle
  /\ \E answer \in FeedInputs : \E limit \in LimitInputs : \E max_age_days \in MaxAgeInputs :
       feed = [answer |-> answer, limit |-> limit, max_age_days |-> max_age_days]
  /\ meets = NotAsked

FetchRecent ==
  /\ meets = NotAsked
  /\ meets' = fetch_recent_liftingcast_meets(feed.answer, feed.limit, feed.max_age_days)
  /\ UNCHANGED feed
  /\ UNCHANGED <<normVars, scoreVars, loadVars, refVars, sessionVars>>

FeedNext == FetchRecent

FeedSpec == FeedInit /\ [][FeedNext]_vars

----------------------------------------------------------------------------
(* Claims about the feed of recent meets *)

(* the documents of the feed that have an id, and the day a date field of a
   document tells, if it tells one *)
FeedDocs == {feed.answer.list[i] : i \in 1..Len(feed.answer.list)}
Known(date) == date.k = "day"

(* the recency date of a document: its creation date, or its meet date when
   the creation date is absent or unparsable *)
RecencyDate(doc) == IF Known(doc.createDate) THEN doc.createDate ELSE doc.date

DocOf(item) == CHOOSE doc \in FeedDocs : doc.has_id /\ doc.id = item.id

(* C21: fetch_recent_liftingcast_meets returns at most `limit` meets, all
   of them when limit is not positive, ordered most recent first by
   creation date, or meet date when there is no creation date, and returns
   no meet whose recency date is known and older than max_age_days. *)
C21_RecentMeets ==
  meets.kind = "return" =>
    /\ feed.limit > 0 => Len(meets.list) <= feed.limit
    /\ feed.limit <= 0 =>
         \A doc \in FeedDocs :
           (doc.has_id /\ ~(/\ feed.max_age_days > 0
                            /\ Known(RecencyDate(doc))
                            /\ RecencyDate(doc).day < 0 - feed.max_age_days))
             => \E i \in 1..Len(meets.list) : meets.list[i].id = doc.id
    /\ \A i, j \in 1..Len(meets.list) :
         (/\ i < j
          /\ Known(RecencyDate(DocOf(meets.list[i])))
          /\ Known(RecencyDate(DocOf(meets.list[j]))))
           => RecencyDate(DocOf(meets.list[i])).day >= RecencyDate(DocOf(meets.list[j])).day
    /\ feed.max_age_days > 0 =>
         \A i \in 1..Len(meets.list) :
           Known(RecencyDate(DocOf(meets.list[i])))
             => RecencyDate(DocOf(meets.list[i])).day >= 0 - feed.max_age_days

=============================================================================
